---- MODULE Spec2Model ----
(***************************************************************************)
(* MAAT MemAuto (extensions/maat_memauto/script.py): the persistent store  *)
(* of memory entries, the save pipeline (_append_memory), the directive    *)
(* parser (output_modifier) and the administrative actions of ui().        *)
(*                                                                         *)
(* Text is a sequence of lexical units ("tokens"): each token is a fixed   *)
(* piece of text (a word, one blank, one line break, one bracket, ...).    *)
(* The token alphabet is chosen so that every string operation of the      *)
(* source (strip, split, lower, the regular expressions) cuts at token     *)
(* boundaries; offsets are Python's 0-based offsets, counted in tokens.    *)
(***************************************************************************)
EXTENDS Integers, Sequences, FiniteSets, TLC

VARIABLES
    pairs,          \* _params["pairs"]: the in-memory entry list
    params,         \* the other keys of _params (the settings)
    file,           \* the content of MEM_PATH (memories.json)
    fingerprints,   \* _LAST_SAVE_FINGERPRINT
    now,            \* datetime.now(), in seconds
    last,           \* the last call of a public operation: name, arguments, result
    reply,          \* the last output_modifier call: its text and what it did
    disk,           \* "ok", or how a write to the disk fails: "denied" / "full"
    defaults_pairs, \* DEFAULTS["pairs"]: whether _params["pairs"] is this list
                    \* object (alias), and else the entries it holds (v)
    backups,        \* the backup files beside MEM_PATH, by the timestamp in their name
    threads,        \* per thread: the operation it runs, its position, its locals
    lock,           \* the holder of _IO_LOCK, or NoThread
    guide_injected, \* _SESSION["guide_injected"]: the guide went out in this process
    dd              \* the choices of the dropdowns of the Edit and the Delete tab

vars ==
    <<pairs, params, file, fingerprints, now, last, reply, disk, defaults_pairs,
      backups, threads, lock, guide_injected, dd>>

----------------------------------------------------------------------------
(* Bounds of the model *)

\* the entry list holds at most this many entries (guards of the adding actions)
MaxPairs == 2

\* the clock is followed for this many seconds
MaxNow == 1

----------------------------------------------------------------------------
(* Text *)

NL == "\n"
SP == " "
QUOT == "\""
\* the character U+2026
ELLIPSIS == "<ellipsis>"

\* tokens that are whitespace for str.strip(), \s and str.split
IsSpace(t) == t \in {SP, NL}

\* tokens made of word characters [A-Za-z0-9_] only
WordToks ==
    {"hello", "world", "remember", "this", "now", "dup", "user", "likes",
     "tea", "Tea", "so", "not", "memory", "keywords", "always", "true",
     "false", "True", "False", "bye", "kw", "ok", "1", "yes", "y", "on", "no",
     "So", "merke", "merk", "dir", "erinnere", "speichere", "store", "save",
     "note", "keep"}

\* len(): the number of characters of a token
TokLen(t) ==
    CASE t = "<guide en>" -> 781
      [] t = "<guide de>" -> 845
      [] t = "<guide es>" -> 854
      [] t = "<guide fr>" -> 915
      [] t = "<guide pt>" -> 849
      [] t = "<guide it>" -> 864
      [] t = "<guide pl>" -> 889
      [] t = "<guide cs>" -> 842
      [] t = "[MAAT-MEMORY-GUIDE" -> 18
      [] t \in {"[truncated", "[Memories]"} -> 10
      [] t \in {"[Memories", "speichere", "September"} -> 9
      [] t \in {"context]", "erinnere"} -> 8
      [] t \in {"Current", "[Memory"} -> 7
      [] t \in {"loaded", "Guide]"} -> 6
      [] t \in {"time:", "date:", "HH:MM", "more)", "merke", "store"} -> 5
      [] t \in {"yyyy", "merk", "save", "note", "keep"} -> 4
      [] t \in {"dd,", "v1]", "dir", "May"} -> 3
      [] t \in {")]", "(+"} -> 2
      [] t \in {"remember", "keywords"} -> 8
      [] t \in {"always", "memory", "&quot;"} -> 6
      [] t \in {"hello", "world", "likes", "save:", "false", "False"} -> 5
      [] t \in {"this", "user", "true", "True"} -> 4
      [] t \in {"now", "dup", "tea", "Tea", "not", "bye"} -> 3
      [] t \in {"so", "So", "kw", "ok", "r/"} -> 2
      [] OTHER -> 1

RECURSIVE CharLen(_)
CharLen(s) == IF s = <<>> THEN 0 ELSE TokLen(Head(s)) + CharLen(Tail(s))

\* str.lower() of one token
LowerTok(t) ==
    CASE t = "Tea" -> "tea"
      [] t = "True" -> "true"
      [] t = "False" -> "false"
      [] t = "So" -> "so"
      [] OTHER -> t

Lower(s) == [i \in 1..Len(s) |-> LowerTok(s[i])]

Min(a, b) == IF a < b THEN a ELSE b
Max(a, b) == IF a > b THEN a ELSE b

\* s[a:b] with Python's clamping of the offsets
Slice(s, a, b) == SubSeq(s, Min(Max(a, 0), Len(s)) + 1, Min(Max(b, 0), Len(s)))

\* text[:n] at character level: whole tokens while they fit, and of the token
\* the cut falls into its first characters, written "x" each
RECURSIVE CutAt(_, _)
CutAt(s, n) ==
    IF s = <<>> \/ n <= 0 THEN <<>>
    ELSE IF TokLen(Head(s)) <= n
         THEN <<Head(s)>> \o CutAt(Tail(s), n - TokLen(Head(s)))
         ELSE [i \in 1..n |-> "x"]

\* s[i], 0-based
At(s, i) == s[i + 1]

RECURSIVE LStrip(_)
LStrip(s) == IF s # <<>> /\ IsSpace(Head(s)) THEN LStrip(Tail(s)) ELSE s

RECURSIVE RStrip(_)
RStrip(s) ==
    IF s # <<>> /\ IsSpace(s[Len(s)]) THEN RStrip(SubSeq(s, 1, Len(s) - 1)) ELSE s

\* str.strip()
Strip(s) == LStrip(RStrip(s))

\* html.unescape(): the entity tokens become the characters they name
UnescapeTok(t) == IF t = "&quot;" THEN QUOT ELSE t

HtmlUnescape(s) == [i \in 1..Len(s) |-> UnescapeTok(s[i])]

\* re.sub(r"\s+", " ", s)
RECURSIVE CollapseSpace(_)
CollapseSpace(s) ==
    IF s = <<>> THEN <<>>
    ELSE IF IsSpace(Head(s))
         THEN <<SP>> \o CollapseSpace(LStrip(s))
         ELSE <<Head(s)>> \o CollapseSpace(Tail(s))

\* p in s, for strings
Contains(s, p) ==
    \E i \in 0..(Len(s) - Len(p)) : SubSeq(s, i + 1, i + Len(p)) = p

\* [w for w in re.split(r"\s+", s) if w]: the number of words
RECURSIVE WordCount(_)
WordCount(s) ==
    IF s = <<>> THEN 0
    ELSE IF IsSpace(Head(s)) THEN WordCount(LStrip(s))
    ELSE IF Len(s) = 1 \/ IsSpace(s[2]) THEN 1 + WordCount(Tail(s))
    ELSE WordCount(Tail(s))

----------------------------------------------------------------------------
(* JSON text and values *)

\* a JSON value, tagged with its type; a string is a token sequence, a dict a
\* function of its keys, and JTime(n) the ISO text of second n of the clock
JStr(s) == [t |-> "str", v |-> s]
JBool(b) == [t |-> "bool", v |-> b]
JNum(n) == [t |-> "num", v |-> n]
JList(s) == [t |-> "list", v |-> s]
JDict(f) == [t |-> "dict", v |-> f]
JTime(n) == [t |-> "time", v |-> n]
JNull == [t |-> "null", v |-> <<>>]

\* tokens that are the text of a flat JSON object (no nested braces)
JsonTea == "{\"memory\":\"user likes tea.\"}"
JsonTeaAlways == "{\"memory\":\"user likes tea.\",\"always\":\"no\"}"

JsonTeaYes == "{\"memory\":\"user likes tea.\",\"always\":\"yes\"}"
JsonTeaTrue == "{\"memory\":\"user likes tea.\",\"always\":true}"

JsonToks == {JsonTea, JsonTeaAlways, JsonTeaYes, JsonTeaTrue}

\* json.loads() of the text of one JSON token: a dict, as a function of its keys
JsonObj(t) ==
    CASE t = JsonTea ->
            [memory |-> JStr(<<"user", SP, "likes", SP, "tea", ".">>)]
      [] t = JsonTeaAlways ->
            [memory |-> JStr(<<"user", SP, "likes", SP, "tea", ".">>),
             always |-> JStr(<<"no">>)]
      [] t = JsonTeaYes ->
            [memory |-> JStr(<<"user", SP, "likes", SP, "tea", ".">>),
             always |-> JStr(<<"yes">>)]
      [] t = JsonTeaTrue ->
            [memory |-> JStr(<<"user", SP, "likes", SP, "tea", ".">>),
             always |-> JBool(TRUE)]

\* the first / last character of a token is a brace
StartsBrace(t) == t = "{" \/ t \in JsonToks
EndsBrace(t) == t = "}" \/ t \in JsonToks

\* json.loads(raw) succeeds exactly on the text of one JSON object
JsonValid(raw) == Len(raw) = 1 /\ raw[1] \in JsonToks

\* obj.get(key, default)
Get(obj, key, default) == IF key \in DOMAIN obj THEN obj[key] ELSE default

\* str(v), for a string, a bool, None or an int
PyStr(v) ==
    CASE v.t = "str" -> v.v
      [] v.t = "bool" -> IF v.v THEN <<"True">> ELSE <<"False">>
      [] v.t = "null" -> <<"None">>
      [] v.t = "num" -> <<ToString(v.v)>>

\* bool(v): None, False, 0 and the empty string, list and dict are false
PyBool(v) ==
    CASE v.t = "bool" -> v.v
      [] v.t = "null" -> FALSE
      [] v.t = "num" -> v.v # 0
      [] v.t = "time" -> TRUE
      [] OTHER -> v.v # <<>>

\* the decimal numerals int() reads in the texts of the model
Numerals == [x \in {"0", "1", "2"} |-> CASE x = "0" -> 0 [] x = "1" -> 1 [] x = "2" -> 2]

\* int(v): the number, or ok = FALSE where int() raises ValueError / TypeError
PyInt(v) ==
    CASE v.t = "num" -> [ok |-> TRUE, n |-> v.v]
      [] v.t = "bool" -> [ok |-> TRUE, n |-> IF v.v THEN 1 ELSE 0]
      [] v.t = "str" /\ Len(Strip(v.v)) = 1 /\ Strip(v.v)[1] \in DOMAIN Numerals
            -> [ok |-> TRUE, n |-> Numerals[Strip(v.v)[1]]]
      [] OTHER -> [ok |-> FALSE, n |-> 0]

\* the strings read as true: ("1","true","yes","y","on")
TruthyStrings == {<<"1">>, <<"true">>, <<"yes">>, <<"y">>, <<"on">>}

----------------------------------------------------------------------------
(* Save pipeline: _normalize_memory_text, _is_relevant_memory *)

\* the backtick character (one token)
BQUOT == "<backtick>"

\* the wrapping characters _normalize_memory_text removes
QuoteToks == {QUOT, "'", BQUOT}

\* _normalize_memory_text
_normalize_memory_text(s) ==
    LET u == Strip(HtmlUnescape(s))
        v == IF Len(u) >= 2 /\ u[1] = u[Len(u)] /\ u[1] \in QuoteToks
             THEN Strip(SubSeq(u, 2, Len(u) - 1))
             ELSE u
    IN  CollapseSpace(v)

\* the banned sub-phrases of _is_relevant_memory ("verbot")
BanPhrases ==
    { <<"we", SP, "need", SP, "to", SP, "ask">>,
      <<"we", SP, "will", SP, "ask">>,
      <<"we", SP, "cannot", SP, "because">>,
      <<"after", SP, "we", SP, "know", SP, "what", SP, "to", SP, "remember">>,
      <<"so", SP, "not">> }

\* the characters of [.!?...]$
SentenceEnd == {".", "!", "?", "..."}

\* the shortest text _is_relevant_memory accepts, in characters
MinRelevantLen == 12
\* the number of words that makes a text relevant without a sentence end
MinRelevantWords == 3

\* _is_relevant_memory with `len(s) <= 12` for the length test
mutIsRelevantTwelveShort(s0) ==
    LET s == Strip(s0)
    IN  /\ CharLen(s) > MinRelevantLen
        /\ \A p \in BanPhrases : ~Contains(Lower(s), p)
        /\ \/ s[Len(s)] \in SentenceEnd
           \/ WordCount(s) >= MinRelevantWords

\* _is_relevant_memory
_is_relevant_memory(s0) ==
    LET s == Strip(s0)
    IN  /\ CharLen(s) >= MinRelevantLen
        /\ \A p \in BanPhrases : ~Contains(Lower(s), p)
        /\ \/ s[Len(s)] \in SentenceEnd
           \/ WordCount(s) >= MinRelevantWords

----------------------------------------------------------------------------
(* Storage: DEFAULTS, _coerce_bool, _sanitize, _load, _save *)

SCHEMA_VERSION == 1

\* the keys of _params other than "pairs"
SettingKeys ==
    {"version", "timecontext", "datecontext", "debug", "ui_lang",
     "max_context_chars", "max_show_memories", "inject_guide", "guide_lang",
     "guide_once", "guide_mode", "hint_on_triggers", "guide_triggers",
     "guide_custom", "allow_model_saves"}

\* DEFAULTS, without "pairs"
DEFAULTS ==
    [version |-> JNum(SCHEMA_VERSION),
     timecontext |-> JBool(TRUE),
     datecontext |-> JBool(TRUE),
     debug |-> JBool(FALSE),
     max_context_chars |-> JNum(1200),
     max_show_memories |-> JNum(8),
     inject_guide |-> JBool(TRUE),
     guide_lang |-> JStr(<<"en">>),
     guide_once |-> JBool(TRUE),
     guide_mode |-> JStr(<<"trigger">>),
     hint_on_triggers |-> JBool(TRUE),
     guide_triggers |->
        JList(<<JStr(<<"merke">>), JStr(<<"merk", SP, "dir">>),
                JStr(<<"erinnere">>), JStr(<<"speichere">>),
                JStr(<<"remember">>), JStr(<<"store">>),
                JStr(<<"save", SP, "this">>), JStr(<<"note", SP, "this">>)>>),
     guide_custom |-> JDict([de |-> JStr(<<>>), en |-> JStr(<<>>)]),
     allow_model_saves |-> JBool(TRUE),
     ui_lang |-> JStr(<<"en">>)]

\* _coerce_bool(v, default)
_coerce_bool(v, default) ==
    CASE v.t = "bool" -> v.v
      [] v.t = "str" -> Lower(Strip(v.v)) \in TruthyStrings
      [] OTHER -> default

\* x or y
PyOr(x, y) == IF PyBool(x) THEN x ELSE y

\* an entry of _params["pairs"] as json.dump writes it
EntryToJson(e) ==
    JDict([memory |-> JStr(e.memory), keywords |-> JStr(e.keywords),
           always |-> JBool(e.always), created_at |-> JTime(e.created_at)])

PairsToJson(prs) == JList([i \in 1..Len(prs) |-> EntryToJson(prs[i])])

\* the loop of _sanitize over data["pairs"]: the entries kept so far are `clean`
RECURSIVE SanitizePairs(_, _, _)
SanitizePairs(raw, clean, t) ==
    IF raw = <<>> THEN clean
    ELSE IF Head(raw).t # "dict" THEN SanitizePairs(Tail(raw), clean, t)
    ELSE LET p == Head(raw)
             mem == Strip(PyStr(Get(p.v, "memory", JStr(<<>>))))
             kws == Strip(PyStr(Get(p.v, "keywords", JStr(<<>>))))
             alw == _coerce_bool(Get(p.v, "always", JBool(FALSE)), FALSE)
             cat == PyOr(Get(p.v, "created_at", JNull), JTime(t))
             seen == \E i \in 1..Len(clean) :
                        /\ clean[i].memory = mem
                        /\ clean[i].keywords = kws
                        /\ clean[i].always = alw
         IN  IF mem = <<>> \/ seen
             THEN SanitizePairs(Tail(raw), clean, t)
             ELSE SanitizePairs(Tail(raw),
                    Append(clean, [memory |-> mem, keywords |-> kws,
                                   always |-> alw, created_at |-> cat.v]), t)

\* the keys of a dict as strings, one after the other
RECURSIVE KeySeq(_)
KeySeq(ks) ==
    IF ks = {} THEN <<>>
    ELSE LET k == CHOOSE x \in ks : TRUE IN <<JStr(<<k>>)>> \o KeySeq(ks \ {k})

\* what `for x in v` yields: the items of a list, the characters of a string
\* (of one-character tokens), the keys of a dict; ok = FALSE where v is not
\* iterable (TypeError)
PyIter(v) ==
    CASE v.t = "list" -> [ok |-> TRUE, items |-> v.v]
      [] v.t = "str" -> [ok |-> TRUE, items |-> [i \in 1..Len(v.v) |-> JStr(<<v.v[i]>>)]]
      [] v.t = "dict" -> [ok |-> TRUE, items |-> KeySeq(DOMAIN v.v)]
      [] OTHER -> [ok |-> FALSE, items |-> <<>>]

\* (data.get(k) or DEFAULTS[k]).lower() raises AttributeError
LowerRaises(d, k) == PyOr(Get(d, k, JNull), DEFAULTS[k]).t # "str"

\* the list comprehension over data["guide_triggers"] raises: the value is not
\* iterable (TypeError) or an item has no strip() (AttributeError)
TriggersRaise(d) ==
    LET it == PyIter(PyOr(Get(d, "guide_triggers", JNull), DEFAULTS.guide_triggers))
    IN  ~it.ok \/ \E i \in 1..Len(it.items) : it.items[i].t # "str"

\* _sanitize(data) raises
SanitizeRaises(d) ==
    \/ ~PyInt(Get(d, "version", JNum(SCHEMA_VERSION))).ok
    \/ LowerRaises(d, "ui_lang")
    \/ LowerRaises(d, "guide_lang")
    \/ LowerRaises(d, "guide_mode")
    \/ TriggersRaise(d)
    \/ ~PyIter(PyOr(Get(d, "pairs", JNull), JList(<<>>))).ok

\* _sanitize(data) at second t: whether it raises, and else the settings and
\* the entries it returns; fresh: out["pairs"] is a new list, not DEFAULTS["pairs"]
_sanitize(data, t) ==
    IF data.t # "dict"
    THEN [raised |-> FALSE, fresh |-> FALSE, params |-> DEFAULTS, pairs |-> <<>>]
    ELSE IF SanitizeRaises(data.v)
    THEN [raised |-> TRUE, fresh |-> FALSE, params |-> DEFAULTS, pairs |-> <<>>]
    ELSE LET d == data.v
             B(k) == JBool(_coerce_bool(Get(d, k, DEFAULTS[k]), FALSE))
             S(k) == JStr(Lower(PyOr(Get(d, k, JNull), DEFAULTS[k]).v))
             N(k) == IF PyInt(Get(d, k, DEFAULTS[k])).ok
                     THEN JNum(Max(0, PyInt(Get(d, k, DEFAULTS[k])).n))
                     ELSE DEFAULTS[k]
             trig == PyIter(PyOr(Get(d, "guide_triggers", JNull),
                                 DEFAULTS.guide_triggers)).items
             kept == SelectSeq(trig, LAMBDA w : Strip(w.v) # <<>>)
         IN  [raised |-> FALSE, fresh |-> TRUE,
              params |->
                [version |-> JNum(PyInt(Get(d, "version", JNum(SCHEMA_VERSION))).n),
                 timecontext |-> B("timecontext"),
                 datecontext |-> B("datecontext"),
                 debug |-> B("debug"),
                 ui_lang |-> S("ui_lang"),
                 max_context_chars |-> N("max_context_chars"),
                 max_show_memories |-> N("max_show_memories"),
                 inject_guide |-> B("inject_guide"),
                 guide_lang |-> S("guide_lang"),
                 guide_once |-> B("guide_once"),
                 guide_mode |-> S("guide_mode"),
                 hint_on_triggers |-> B("hint_on_triggers"),
                 guide_triggers |->
                    JList([i \in 1..Len(kept) |-> JStr(Strip(kept[i].v))]),
                 guide_custom |->
                    PyOr(Get(d, "guide_custom", JNull), DEFAULTS.guide_custom),
                 allow_model_saves |-> B("allow_model_saves")],
              pairs |->
                SanitizePairs(PyIter(PyOr(Get(d, "pairs", JNull), JList(<<>>))).items,
                              <<>>, t)]

\* the document _ensure_storage writes when MEM_PATH does not exist
FreshDoc == JDict([pairs |-> JList(<<>>)])

\* a file holding the JSON text of document d
JsonFile(d) == [kind |-> "json", doc |-> d]

NoFile == [kind |-> "absent", doc |-> JDict(<<>>)]

\* a file whose content json.load() rejects (an empty or cut-off file)
Garbage == [kind |-> "garbage", doc |-> JDict(<<>>)]

\* _ensure_storage
_ensure_storage(f) == IF f.kind = "absent" THEN JsonFile(FreshDoc) ELSE f

\* the dict `data` that _save builds from _params
SaveData(ps, prs) ==
    JDict([k \in SettingKeys \cup {"pairs"} |->
              CASE k = "pairs" -> PairsToJson(prs)
                [] k = "version" -> JNum(SCHEMA_VERSION)
                [] OTHER -> ps[k]])

\* a store: the in-memory entries and settings, the backing file, and
\*   disk    "ok", or how a write fails: "denied" (open() raises, the file
\*           stays) or "full" (open() truncates the file, json.dump raises);
\*   raised  an exception is on its way out of the running operation;
\*   alias   _params["pairs"] is the list object DEFAULTS["pairs"];
\*   shared  the entries of DEFAULTS["pairs"] while alias is false
MkStore(prs, ps, f) ==
    [pairs |-> prs, params |-> ps, file |-> f, disk |-> "ok", raised |-> FALSE,
     alias |-> FALSE, shared |-> <<>>]

\* the entries of the list object DEFAULTS["pairs"]
DefaultsPairs(st) == IF st.alias THEN st.pairs ELSE st.shared

\* _params["pairs"] is bound to a new list that holds prs
BindPairs(st, prs) ==
    [st EXCEPT !.pairs = prs, !.alias = FALSE, !.shared = DefaultsPairs(st)]

\* _save: the whole document is written over MEM_PATH, or the write raises
_save(st) ==
    CASE st.raised -> st
      [] st.disk = "ok" -> [st EXCEPT !.file = JsonFile(SaveData(st.params, st.pairs))]
      [] st.disk = "denied" -> [st EXCEPT !.raised = TRUE]
      [] st.disk = "full" -> [st EXCEPT !.raised = TRUE, !.file = Garbage]

\* _load at second t: a file json.load() rejects is read as {}; when _sanitize
\* raises, _params stays as it was
_load(st, t) ==
    LET f == _ensure_storage(st.file)
        raw == IF f.kind = "json" THEN f.doc ELSE JDict(<<>>)
        out == _sanitize(raw, t)
        g == [st EXCEPT !.file = f]
    IN  IF out.raised THEN [g EXCEPT !.raised = TRUE]
        ELSE IF out.fresh THEN [BindPairs(g, out.pairs) EXCEPT !.params = out.params]
        ELSE [g EXCEPT !.params = out.params, !.pairs = DefaultsPairs(st),
                       !.alias = TRUE, !.shared = <<>>]

----------------------------------------------------------------------------
(* Save pipeline: _append_memory *)

\* the part of _append_memory that lifts memory / keywords / always out of a
\* memory text that is itself a JSON object
LiftJson(memory, keywords, always) ==
    LET obj == JsonObj(memory[1])
        av == Get(obj, "always", JBool(FALSE))
    IN  IF JsonValid(memory) /\ PyBool(Get(obj, "memory", JStr(<<>>)))
        THEN [memory |-> _normalize_memory_text(PyStr(obj.memory)),
              keywords |-> IF keywords = <<>>
                           THEN Strip(PyStr(Get(obj, "keywords", JStr(<<>>))))
                           ELSE keywords,
              always |-> IF always THEN TRUE
                         ELSE IF av.t = "bool" THEN av.v
                         ELSE Lower(Strip(PyStr(av))) \in TruthyStrings]
        ELSE [memory |-> memory, keywords |-> keywords, always |-> always]

\* the duplicate test of _append_memory with only the new entry's keywords lowered
mutSameEntryOneSidedLower(p, entry) ==
    /\ Strip(p.memory) = entry.memory
    /\ Strip(p.keywords) = Lower(entry.keywords)
    /\ p.always = entry.always

\* the duplicate test of _append_memory: entry p of the list against the new entry
SameEntry(p, entry) ==
    /\ Strip(p.memory) = entry.memory
    /\ Lower(Strip(p.keywords)) = Lower(entry.keywords)
    /\ p.always = entry.always

\* the entry _append_memory builds from its arguments at second t
NewEntry(memory0, keywords0, always0, t) ==
    LET norm == _normalize_memory_text(HtmlUnescape(memory0))
        lifted == IF norm # <<>> /\ StartsBrace(norm[1]) /\ EndsBrace(norm[Len(norm)])
                  THEN LiftJson(norm, keywords0, always0)
                  ELSE [memory |-> norm, keywords |-> keywords0, always |-> always0]
    IN  [memory |-> lifted.memory,
         keywords |-> Strip(lifted.keywords),
         always |-> lifted.always,
         created_at |-> t]

\* _append_memory with the new entry put in front: insert(0, entry)
mutAppendMemoryInFront(st, memory0, keywords0, always0, t) ==
    LET entry == NewEntry(memory0, keywords0, always0, t)
    IN  IF entry.memory = <<>>
        THEN [st |-> st, ok |-> FALSE, msg |-> "Empty memory."]
        ELSE IF ~_is_relevant_memory(entry.memory)
        THEN [st |-> st, ok |-> FALSE, msg |-> "Filtered (short/irrelevant)."]
        ELSE IF \E i \in 1..Len(st.pairs) : SameEntry(st.pairs[i], entry)
        THEN [st |-> st, ok |-> FALSE, msg |-> "Already exists."]
        ELSE [st |-> _save([st EXCEPT !.pairs = <<entry>> \o st.pairs]),
              ok |-> TRUE, msg |-> "Memory saved"]

\* _append_memory(memory, keywords, always) on store st at second t:
\* the store it leaves and the (ok, message) it returns
_append_memory(st, memory0, keywords0, always0, t) ==
    LET entry == NewEntry(memory0, keywords0, always0, t)
    IN  IF entry.memory = <<>>
        THEN [st |-> st, ok |-> FALSE, msg |-> "Empty memory."]
        ELSE IF ~_is_relevant_memory(entry.memory)
        THEN [st |-> st, ok |-> FALSE, msg |-> "Filtered (short/irrelevant)."]
        ELSE IF \E i \in 1..Len(st.pairs) : SameEntry(st.pairs[i], entry)
        THEN [st |-> st, ok |-> FALSE, msg |-> "Already exists."]
        ELSE [st |-> _save([st EXCEPT !.pairs = Append(st.pairs, entry)]),
              ok |-> TRUE, msg |-> "Memory saved"]

----------------------------------------------------------------------------
(* Backup and the actions of ui() *)

\* _backup_memories at second t: MEM_PATH is copied to memories.backup-<t>.json
\* (shutil.copy2 writes over a file of that name)
\* whatever the copy raises is caught: ok = FALSE is the None it then returns
_backup_memories(st, bak, t) ==
    LET g == _ensure_storage(st.file)
        Put(c) == [x \in DOMAIN bak \cup {t} |-> IF x = t THEN c ELSE bak[x]]
    IN  CASE st.disk = "ok" -> [file |-> g, backups |-> Put(g), ok |-> TRUE]
          [] st.disk = "denied" -> [file |-> g, backups |-> bak, ok |-> FALSE]
          [] st.disk = "full" -> [file |-> g, backups |-> Put(Garbage), ok |-> FALSE]

\* no entry selected in a dropdown
NoSel == -1

\* the label of an entry in a dropdown: (m[:48] + ELLIPSIS) if len(m) > 50 else m
Label(m) == IF CharLen(m) > 50 THEN CutAt(m, 48) \o <<ELLIPSIS>> ELSE m

\* _choices() and _choices_del(): f"{i}: {label}" for every entry
_choices(prs) == [i \in 1..Len(prs) |-> [idx |-> i - 1, label |-> Label(prs[i].memory)]]

\* _add(mem, kw, alw)
_add(st, mem0, kw, alw, t) ==
    LET mem == Strip(mem0)
    IN  IF mem = <<>> THEN [st |-> st, msg |-> "add_need_mem"]
        ELSE IF kw = <<>> /\ ~alw THEN [st |-> st, msg |-> "add_need_kw"]
        ELSE IF ~\E i \in 1..Len(st.pairs) : st.pairs[i].memory = mem
        THEN [st |-> _save([st EXCEPT !.pairs =
                         Append(st.pairs, [memory |-> mem, keywords |-> Strip(kw),
                                           always |-> alw, created_at |-> t])]),
              msg |-> "add_saved_ok"]
        ELSE [st |-> st, msg |-> "add_saved_ok"]

\* _upd(sel, m, k, a): sel is the index in the selected label, or NoSel
_upd(st, sel, m, k, a) ==
    IF sel = NoSel THEN [st |-> st, msg |-> "edit_need_select"]
    ELSE IF sel >= Len(st.pairs) THEN [st |-> st, msg |-> "IndexError"]
    ELSE [st |-> _save([st EXCEPT !.pairs[sel + 1] =
                     [memory |-> Strip(m), keywords |-> Strip(k), always |-> a,
                      created_at |-> st.pairs[sel + 1].created_at]]),
          msg |-> "edit_updated"]

\* del lst[idx]
DelAt(lst, idx) == SubSeq(lst, 1, idx) \o SubSeq(lst, idx + 2, Len(lst))

\* _delete(sel) without the _save() after the del
mutDeleteNoSave(st, sel) ==
    IF sel = NoSel THEN [st |-> st, msg |-> "del_need_select"]
    ELSE IF 0 <= sel /\ sel < Len(st.pairs)
    THEN [st |-> [st EXCEPT !.pairs = DelAt(st.pairs, sel)],
          msg |-> "del_deleted"]
    ELSE [st |-> st, msg |-> "del_invalid_idx"]

\* _delete(sel)
_delete(st, sel) ==
    IF sel = NoSel THEN [st |-> st, msg |-> "del_need_select"]
    ELSE IF 0 <= sel /\ sel < Len(st.pairs)
    THEN [st |-> _save([st EXCEPT !.pairs = DelAt(st.pairs, sel)]),
          msg |-> "del_deleted"]
    ELSE [st |-> st, msg |-> "del_invalid_idx"]

\* _delete_all(confirm) at second t: the store and the backups it leaves
_delete_all(st, bak, confirm, t) ==
    IF ~confirm
    THEN [st |-> st, backups |-> bak, msg |-> "del_all_need_confirm"]
    ELSE LET b == _backup_memories(st, bak, t)
         IN  [st |-> _save(BindPairs([st EXCEPT !.file = b.file], <<>>)),
              backups |-> b.backups,
              msg |-> IF b.ok THEN "del_all_done+backup" ELSE "del_all_done"]

\* str.split(sep) for a one-token separator
RECURSIVE SplitOn(_, _)
SplitOn(s, sep) ==
    IF \A i \in 1..Len(s) : s[i] # sep THEN <<s>>
    ELSE LET i == CHOOSE j \in 1..Len(s) :
                     s[j] = sep /\ \A h \in 1..(j - 1) : s[h] # sep
         IN  <<SubSeq(s, 1, i - 1)>> \o SplitOn(SubSeq(s, i + 1, Len(s)), sep)

\* _apply_settings: the settings the widgets hold are written to _params and saved;
\* w holds the widgets' values, trig_txt the text of the trigger box
_apply_settings(st, w, trig_txt) ==
    LET parts == SplitOn(trig_txt, ",")
        kept == SelectSeq(parts, LAMBDA x : Strip(x) # <<>>)
    IN  _save([st EXCEPT !.params =
            [k \in SettingKeys |->
                CASE k \in DOMAIN w -> w[k]
                  [] k = "guide_triggers" ->
                        JList([i \in 1..Len(kept) |-> JStr(Strip(kept[i]))])
                  [] OTHER -> st.params[k]]])

\* the languages of _GUIDE_SUPPORTED
GuideSupported == {"en", "de", "es", "fr", "pt", "it", "pl", "cs"}

\* _set_guide_text(lang, txt)
_set_guide_text(st, lang, txt) ==
    LET old == PyOr(st.params.guide_custom, JDict(<<>>)).v
        gc == [l \in GuideSupported \cup DOMAIN old \cup {lang} |->
                  IF l = lang THEN JStr(Strip(txt))
                  ELSE IF l \in DOMAIN old THEN old[l] ELSE JStr(<<>>)]
    IN  _save([st EXCEPT !.params.guide_custom = JDict(gc)])

----------------------------------------------------------------------------
(* Matching: _split_keywords, _matches, _collect_memories_for *)

\* _split_keywords: the keyword string is split at runs of commas and line
\* breaks; the pieces are stripped and lower-cased, empty ones dropped
_split_keywords(s) ==
    LET parts == SplitOn([i \in 1..Len(s) |-> IF s[i] = NL THEN "," ELSE s[i]], ",")
        kept == SelectSeq(parts, LAMBDA x : Strip(x) # <<>>)
    IN  IF s = <<>> THEN <<>>
        ELSE [i \in 1..Len(kept) |-> Lower(Strip(kept[i]))]

\* kw is written r/.../ with a pattern of at least one character
IsRegexKw(kw) ==
    Len(kw) >= 2 /\ kw[1] = "r/" /\ kw[Len(kw)] = "/" /\ CharLen(kw) > 3

\* re.search(pat, text, re.IGNORECASE) is not None, for the patterns of the
\* model: words and blanks match themselves, a "(" that is never closed makes
\* re.error, which _matches turns into False
RegexSearch(pat, text) ==
    IF (\E i \in 1..Len(pat) : pat[i] = "(") /\ (\A i \in 1..Len(pat) : pat[i] # ")")
    THEN FALSE
    ELSE Contains(Lower(text), Lower(pat))

\* _matches(text_lower, kw)
_matches(text_lower, kw) ==
    IF IsRegexKw(kw) THEN RegexSearch(SubSeq(kw, 2, Len(kw) - 1), text_lower)
    ELSE Contains(text_lower, kw)

\* the loop of _collect_memories_for over the entries from the i-th on
RECURSIVE CollectFrom(_, _, _, _)
CollectFrom(prs, i, user_lower, picked) ==
    IF i > Len(prs) THEN picked
    ELSE LET p == prs[i]
             kws == _split_keywords(p.keywords)
             m == Strip(p.memory)
             hit == p.always \/ \E k \in 1..Len(kws) : _matches(user_lower, kws[k])
             seen == \E j \in 1..Len(picked) : picked[j] = m
         IN  IF hit /\ m # <<>> /\ ~seen
             THEN CollectFrom(prs, i + 1, user_lower, Append(picked, m))
             ELSE CollectFrom(prs, i + 1, user_lower, picked)

\* _collect_memories_for(text): the memory texts picked, in store order
_collect_memories_for(prs, text) == CollectFrom(prs, 1, Lower(text), <<>>)

----------------------------------------------------------------------------
(* Output post-processing: _SAVE_PATTERNS, _parse_save_payload, _fingerprint, *)
(* output_modifier                                                           *)

\* the last character of a token is a word character (for \b before "save")
EndsWordChar(t) == t \in WordToks

\* the offset of the first token at or after `from` that is not whitespace
RECURSIVE SkipSpace(_, _)
SkipSpace(s, from) ==
    IF from < Len(s) /\ IsSpace(At(s, from)) THEN SkipSpace(s, from + 1) ELSE from

\* the offset of the first token at or after `from` that is in toks, or len(s)
RECURSIVE FirstFrom(_, _, _)
FirstFrom(s, from, toks) ==
    IF from >= Len(s) THEN Len(s)
    ELSE IF At(s, from) \in toks THEN from
    ELSE FirstFrom(s, from + 1, toks)

NoMatch == [ok |-> FALSE, start |-> 0, end |-> 0, group |-> <<>>]

\* \bsave\s*: at offset i
SaveAt(s, i) ==
    /\ i < Len(s)
    /\ At(s, i) = "save:"
    /\ (i = 0 \/ ~EndsWordChar(At(s, i - 1)))

IsOpen(p, t) == (p = 1 /\ t = "(") \/ (p = 2 /\ t = "[") \/ (p = 3 /\ StartsBrace(t))
Closers(p) == IF p = 1 THEN {")"} ELSE IF p = 2 THEN {"]"} ELSE {"}"} \cup JsonToks

\* _SAVE_PATTERNS[0..2] matched at offset i:
\*   \bsave\s*:\s*\((.*?)\)\s*, \bsave\s*:\s*\[(.*?)\]\s*, \bsave\s*:\s*({.*?})\s*
MatchDelim(s, i, p) ==
    LET j == SkipSpace(s, i + 1)
        k == IF p = 3 /\ At(s, j) \in JsonToks THEN j
             ELSE FirstFrom(s, j + 1, Closers(p))
    IN  IF SaveAt(s, i) /\ j < Len(s) /\ IsOpen(p, At(s, j)) /\ k < Len(s)
        THEN [ok |-> TRUE, start |-> i, end |-> SkipSpace(s, k + 1),
              group |-> IF p = 3 THEN Slice(s, j, k + 1) ELSE Slice(s, j + 1, k)]
        ELSE NoMatch

\* _SAVE_PATTERNS[3] matched at offset i: \bsave\s*:\s*(.+?)(?:\n|$), with (?s)
MatchLine(s, i) ==
    LET j == SkipSpace(s, i + 1)
        e == FirstFrom(s, j + 1, {NL})
    IN  IF ~SaveAt(s, i) THEN NoMatch
        ELSE IF j < Len(s)
        THEN [ok |-> TRUE, start |-> i, end |-> Min(e + 1, Len(s)),
              group |-> Slice(s, j, e)]
        ELSE IF j > i + 1
        THEN [ok |-> TRUE, start |-> i, end |-> Len(s),
              group |-> Slice(s, Len(s) - 1, Len(s))]
        ELSE NoMatch

MatchAt(s, i, p) == IF p = 4 THEN MatchLine(s, i) ELSE MatchDelim(s, i, p)

\* pat.finditer(s): the matches of pattern p from offset `from` on, left to right
RECURSIVE FindIter(_, _, _)
FindIter(s, p, from) ==
    IF from >= Len(s) THEN <<>>
    ELSE LET m == MatchAt(s, from, p)
         IN  IF m.ok
             THEN <<[pat |-> p, start |-> m.start, end |-> m.end, group |-> m.group]>>
                  \o FindIter(s, p, Max(m.end, from + 1))
             ELSE FindIter(s, p, from + 1)

\* the list `matches`: every pattern's matches, pattern after pattern
AllMatches(s) ==
    FindIter(s, 1, 0) \o FindIter(s, 2, 0) \o FindIter(s, 3, 0) \o FindIter(s, 4, 0)

\* matches.sort(key=start, reverse=True): stable, so equal starts keep their order
RECURSIVE SortByStartDesc(_, _)
SortByStartDesc(ms, v) ==
    IF v < 0 THEN <<>>
    ELSE SelectSeq(ms, LAMBDA m : m.start = v) \o SortByStartDesc(ms, v - 1)

\* how far behind a match output_modifier looks for flags, in characters
TailWindow == 200

NoFlag == [ok |-> FALSE, value |-> <<>>, end |-> 0]

\* \[ \s* key \s* = \s* ([^\]]+) \] at offset a of the tail; innerSpace: whether
\* the pattern allows whitespace between the bracket and the key
FlagAt(tl, a, keys, innerSpace) ==
    LET b == IF innerSpace THEN SkipSpace(tl, a + 1) ELSE a + 1
        c == SkipSpace(tl, b + 1)
        close == FirstFrom(tl, c + 1, {"]"})
    IN  IF /\ a < Len(tl) /\ At(tl, a) = "["
           /\ b < Len(tl) /\ LowerTok(At(tl, b)) \in keys
           /\ c < Len(tl) /\ At(tl, c) = "="
           /\ close < Len(tl) /\ close > c + 1
        THEN [ok |-> TRUE, value |-> Strip(Slice(tl, c + 1, close)), end |-> close + 1]
        ELSE NoFlag

\* kw_re.search(tail) / alw_re.search(tail): the first match from offset a on
RECURSIVE FlagSearch(_, _, _)
FlagSearch(tl, a, keys) ==
    IF a >= Len(tl) THEN NoFlag
    ELSE IF FlagAt(tl, a, keys, TRUE).ok THEN FlagAt(tl, a, keys, TRUE)
    ELSE FlagSearch(tl, a + 1, keys)

\* the end of the last match of
\*   re.finditer(r'\s*\[(?:keywords|always)\s*=\s*[^\]]+\]', tail), or acc
RECURSIVE LastFlagEnd(_, _, _)
LastFlagEnd(tl, a, acc) ==
    IF a >= Len(tl) THEN acc
    ELSE LET m == FlagAt(tl, a, {"keywords", "always"}, FALSE)
         IN  IF m.ok THEN LastFlagEnd(tl, m.end, m.end)
             ELSE LastFlagEnd(tl, a + 1, acc)

\* one turn of the removal loop of output_modifier for match m on `modified`:
\* the entry appended to `collected` and the new `modified`
ExciseOne(modified, m) ==
    LET tl == Slice(modified, m.end, m.end + TailWindow)
        mkw == FlagSearch(tl, 0, {"keywords"})
        malw == FlagSearch(tl, 0, {"always"})
        cut_end == m.end + LastFlagEnd(tl, 0, 0)
        pre == Slice(modified, 0, m.start)
        post == Slice(modified, cut_end, Len(modified))
        post2 == IF /\ pre # <<>> /\ pre[Len(pre)] = NL
                    /\ LStrip(post) # <<>> /\ Head(LStrip(post)) = NL
                 THEN LStrip(post) ELSE post
    IN  [modified |-> Strip(pre \o post2),
         item |-> [start |-> m.start, end |-> m.end, raw |-> m.group,
                   tail_kw |-> mkw.value,
                   has_alw |-> malw.ok,
                   tail_alw |-> malw.ok /\ Lower(malw.value) \in TruthyStrings]]

\* the removal loop over the sorted matches
RECURSIVE Excise(_, _, _)
Excise(ms, modified, collected) ==
    IF ms = <<>> THEN [modified |-> modified, collected |-> collected]
    ELSE CHOOSE res \in {Excise(Tail(ms), r.modified, Append(collected, r.item)) :
                            r \in {ExciseOne(modified, Head(ms))}} : TRUE

\* the pieces str.split(",") tears a JSON token into
CommaParts(t) ==
    IF t = JsonTeaAlways
    THEN <<"{\"memory\":\"user likes tea.\"", ",", "\"always\":\"no\"}">>
    ELSE IF t = JsonTeaYes
    THEN <<"{\"memory\":\"user likes tea.\"", ",", "\"always\":\"yes\"}">>
    ELSE IF t = JsonTeaTrue
    THEN <<"{\"memory\":\"user likes tea.\"", ",", "\"always\":true}">>
    ELSE <<t>>

RECURSIVE Explode(_)
Explode(s) == IF s = <<>> THEN <<>> ELSE CommaParts(Head(s)) \o Explode(Tail(s))

HasTok(s, t) == \E i \in 1..Len(s) : s[i] = t

\* the dict kv of _parse_save_payload: the value of `key` in the last part
\* "key=value" that sets it, or <<>>
RECURSIVE KvGet(_, _, _)
KvGet(parts, key, acc) ==
    IF parts = <<>> THEN acc
    ELSE LET part == Strip(Head(parts))
             eq == FirstFrom(part, 0, {"="})
         IN  IF eq < Len(part) /\ Lower(Strip(Slice(part, 0, eq))) = <<key>>
             THEN KvGet(Tail(parts), key,
                        [has |-> TRUE, v |-> Strip(Slice(part, eq + 1, Len(part)))])
             ELSE KvGet(Tail(parts), key, acc)

NoKv == [has |-> FALSE, v |-> <<>>]

\* _parse_save_payload(raw): None (ok = FALSE) or the dict it returns
_parse_save_payload(raw0) ==
    LET raw == HtmlUnescape(Strip(raw0))
        parts == SplitOn(Explode(raw), ",")
        mem == KvGet(parts, "memory", NoKv)
        kws == KvGet(parts, "keywords", NoKv)
        alw == KvGet(parts, "always", NoKv)
    IN  IF Strip(raw0) = <<>>
        THEN [ok |-> FALSE, memory |-> <<>>, keywords |-> <<>>, always |-> FALSE]
        ELSE IF StartsBrace(raw[1]) /\ EndsBrace(raw[Len(raw)]) /\ JsonValid(raw)
        THEN LET obj == JsonObj(raw[1])
             IN  [ok |-> TRUE,
                  memory |-> Strip(PyStr(Get(obj, "memory", JStr(<<>>)))),
                  keywords |-> Strip(PyStr(Get(obj, "keywords", JStr(<<>>)))),
                  always |-> PyBool(Get(obj, "always", JBool(FALSE)))]
        ELSE IF /\ HasTok(Explode(raw), "=") /\ HasTok(Explode(raw), ",")
                /\ (mem.has \/ kws.has \/ alw.has)
        THEN [ok |-> TRUE, memory |-> mem.v, keywords |-> kws.v,
              always |-> Lower(Strip(alw.v)) \in TruthyStrings]
        ELSE [ok |-> TRUE, memory |-> raw, keywords |-> <<>>, always |-> FALSE]

\* _fingerprint(save_dict): the hash of json.dumps(save_dict, sort_keys=True),
\* which tells two dicts apart exactly when their sorted fields differ
_fingerprint(d) == <<d.always, d.keywords, d.memory>>

\* the turn of the loop without the test of the fingerprint set
mutProcessOneNoSkip(it, acc, t) ==
    LET parsed0 == _parse_save_payload(it.raw)
        parsed == [memory |-> parsed0.memory,
                   keywords |-> IF it.tail_kw # <<>> /\ parsed0.keywords = <<>>
                                THEN it.tail_kw ELSE parsed0.keywords,
                   always |-> IF it.has_alw /\ ~parsed0.always
                              THEN it.tail_alw ELSE parsed0.always]
        fp == _fingerprint(parsed)
        r == _append_memory(acc.st, parsed.memory, parsed.keywords, parsed.always, t)
    IN  IF acc.st.raised \/ ~parsed0.ok THEN acc
        ELSE [st |-> r.st, fps |-> acc.fps \cup {fp}, any_found |-> TRUE,
              calls |-> Append(acc.calls,
                               [start |-> it.start, end |-> it.end,
                                payload |-> parsed, ok |-> r.ok])]

\* one turn of the loop of output_modifier over reversed(collected) for item
\* `it`: `acc` holds the store, the fingerprint set, any_found, and the
\* _append_memory calls made so far
ProcessOne(it, acc, t) ==
    LET parsed0 == _parse_save_payload(it.raw)
        parsed == [memory |-> parsed0.memory,
                   keywords |-> IF it.tail_kw # <<>> /\ parsed0.keywords = <<>>
                                THEN it.tail_kw ELSE parsed0.keywords,
                   always |-> IF it.has_alw /\ ~parsed0.always
                              THEN it.tail_alw ELSE parsed0.always]
        fp == _fingerprint(parsed)
        r == _append_memory(acc.st, parsed.memory, parsed.keywords, parsed.always, t)
    IN  IF acc.st.raised \/ ~parsed0.ok \/ fp \in acc.fps THEN acc
        ELSE [st |-> r.st, fps |-> acc.fps \cup {fp}, any_found |-> TRUE,
              calls |-> Append(acc.calls,
                               [start |-> it.start, end |-> it.end,
                                payload |-> parsed, ok |-> r.ok])]

\* the loop of output_modifier over reversed(collected)
RECURSIVE ProcessSaves(_, _, _)
ProcessSaves(items, acc, t) ==
    IF items = <<>> THEN acc
    ELSE CHOOSE res \in {ProcessSaves(Tail(items), nxt, t) :
                            nxt \in {ProcessOne(Head(items), acc, t)}} : TRUE

Reverse(s) == [i \in 1..Len(s) |-> s[Len(s) + 1 - i]]

\* what output_modifier returns and leaves when it does nothing
Untouched(st, fps, string) ==
    [ret |-> string, st |-> st, fps |-> fps, matches |-> <<>>, calls |-> <<>>]

\* output_modifier from the sorted matches on
Collect(st, fps, string, t, matches) ==
    CHOOSE res \in UNION {
        {[ret |-> IF done.any_found THEN ex.modified ELSE string,
          st |-> done.st, fps |-> done.fps, matches |-> matches,
          calls |-> done.calls] :
            done \in {ProcessSaves(Reverse(ex.collected),
                         [st |-> st, fps |-> fps, any_found |-> FALSE,
                          calls |-> <<>>], t)}} :
        ex \in {Excise(SortByStartDesc(matches, Len(string)), string, <<>>)}} : TRUE

\* output_modifier behind its test of allow_model_saves
Harvest(st, fps, string, t) ==
    CHOOSE res \in {IF matches = <<>> THEN Untouched(st, fps, string)
                    ELSE Collect(st, fps, string, t, matches) :
                        matches \in {AllMatches(string)}} : TRUE

\* output_modifier without its test of allow_model_saves
mutOutputModifierNoGuard(st, fps, string, t) == Harvest(st, fps, string, t)

\* output_modifier(string) on store st with fingerprint set fps at second t:
\* the text it returns, the store and fingerprints it leaves, and what it did
output_modifier(st, fps, string, t) ==
    IF ~st.params.allow_model_saves.v THEN Untouched(st, fps, string)
    ELSE Harvest(st, fps, string, t)

\* no output_modifier call yet
NoOutput ==
    [text |-> <<>>, ret |-> <<>>, matches |-> <<>>, calls |-> <<>>,
     allowed |-> FALSE, fresh |-> FALSE]

----------------------------------------------------------------------------
(* Input hooks: _cap, _has_trigger, _get_guide_text, input_modifier,       *)
(* custom_generate_chat_prompt                                              *)

\* the characters _cap keeps free for its marker
CapReserve == 60

\* "\n" + ELLIPSIS + " [truncated context]"
TruncMarker == <<NL, ELLIPSIS, SP, "[truncated", SP, "context]">>

\* _cap(text, max_chars), and _cap_context_block, which calls it
_cap(text, max_chars) ==
    IF max_chars <= 0 \/ CharLen(text) <= max_chars THEN text
    ELSE RStrip(CutAt(text, Max(0, max_chars - CapReserve))) \o TruncMarker

\* the first character of a token is a word character
StartsWordChar(t) == t \in WordToks \cup {"save:", "r/"}

\* re.search(rf"\b{re.escape(w)}\b", s): w occurs in s with a word boundary
\* at both of its ends
BoundedSearch(w, s) ==
    \E i \in 0..(Len(s) - Len(w)) :
        /\ SubSeq(s, i + 1, i + Len(w)) = w
        /\ StartsWordChar(w[1]) # (i > 0 /\ EndsWordChar(s[i]))
        /\ EndsWordChar(w[Len(w)]) #
              (i + Len(w) < Len(s) /\ StartsWordChar(s[i + Len(w) + 1]))

\* _has_trigger(user_text, words); words holds JSON strings
_has_trigger(user_text, words) ==
    \E k \in 1..Len(words) :
        /\ Strip(Lower(words[k].v)) # <<>>
        /\ BoundedSearch(Strip(Lower(words[k].v)), Lower(user_text))

\* _GUIDE_MARKER
GuideMarker == <<"[MAAT-MEMORY-GUIDE", SP, "v1]">>

\* _guide_default_for(lang): the default text of a language is one token
GuideDefault(lang) ==
    IF lang \in GuideSupported THEN <<"<guide " \o lang \o ">">>
    ELSE <<"<guide en>">>

\* _get_guide_text(lang): the custom text of the language if there is one, else
\* the default text, behind the marker
_get_guide_text(ps, lang0) ==
    LET lang == IF lang0 = <<>> THEN "en" ELSE lang0[1]
        custom_map == PyOr(ps.guide_custom, JDict(<<>>)).v
        custom_txt == IF lang \in DOMAIN custom_map
                      THEN Strip(PyOr(custom_map[lang], JStr(<<>>)).v)
                      ELSE <<>>
        guide_body == IF custom_txt # <<>> THEN custom_txt ELSE GuideDefault(lang)
    IN  Strip(GuideMarker \o <<NL>> \o guide_body)

\* the guide goes out always
mutGuideDueAlways(ps, gi) == TRUE

\* not (_params.get("guide_once", True) and _SESSION.get("guide_injected"))
GuideDue(ps, gi) == ~(ps.guide_once.v /\ gi)

\* "Current time: HH:MM" and "Current date: <month> dd, yyyy"
TimeLine == <<"Current", SP, "time:", SP, "HH:MM">>
DateLine(month) == <<"Current", SP, "date:", SP, month, SP, "dd,", SP, "yyyy">>

\* names of months, the shortest and the longest
Months == {"May", "September"}

\* "\n".join / "\n\n".join(blocks)
RECURSIVE JoinWith(_, _)
JoinWith(blocks, sep) ==
    IF blocks = <<>> THEN <<>>
    ELSE IF Len(blocks) = 1 THEN blocks[1]
    ELSE blocks[1] \o sep \o JoinWith(Tail(blocks), sep)

\* "(n)]" and "(+n" of the memory block's header and last line
CountTok(n) ==
    CASE n = 0 -> "0" [] n = 1 -> "1" [] n = 2 -> "2" [] n = 3 -> "3"
      [] OTHER -> "9"

\* the block of the listed memories in input_modifier
MemoryBlock(mems, max_show) ==
    LET header == <<"[Memories", SP, "loaded", SP, "(", CountTok(Len(mems)), ")]">>
        shown == SubSeq(mems, 1, Min(Len(mems), Max(max_show, 0)))
        listed == JoinWith([i \in 1..Len(shown) |-> <<"-", SP>> \o Strip(shown[i])],
                           <<NL>>)
    IN  IF Len(mems) <= max_show THEN header \o <<NL>> \o listed
        ELSE header \o <<NL>> \o listed \o
             <<NL, ELLIPSIS, SP, "(+", CountTok(Len(mems) - max_show), SP, "more)">>

\* input_modifier(user_input) with _SESSION["guide_injected"] = gi: the text
\* returned, the diagnostics globals, whether the guide went into the blocks,
\* and the flag afterwards
input_modifier(prs, ps, gi, user_input, month) ==
    LET mems == _collect_memories_for(prs, user_input)
        guide == /\ ps.hint_on_triggers.v /\ ps.inject_guide.v
                 /\ _has_trigger(user_input, ps.guide_triggers.v)
                 /\ GuideDue(ps, gi)
        blocks == (IF ps.timecontext.v THEN <<TimeLine>> ELSE <<>>) \o
                  (IF ps.datecontext.v THEN <<DateLine(month)>> ELSE <<>>) \o
                  (IF mems # <<>>
                   THEN <<MemoryBlock(mems, ps.max_show_memories.v)>> ELSE <<>>) \o
                  (IF guide
                   THEN <<<<"[Memory", SP, "Guide]", NL>> \o
                          _get_guide_text(ps, ps.guide_lang.v)>>
                   ELSE <<>>)
        inj == _cap(Strip(JoinWith(blocks, <<NL, NL>>)), ps.max_context_chars.v)
    IN  [ret |-> IF blocks # <<>> THEN inj \o <<NL, NL>> \o user_input
                 ELSE user_input,
         block |-> IF blocks # <<>> THEN inj ELSE <<>>,
         last_injected_memories |-> IF blocks # <<>> THEN mems ELSE <<>>,
         last_injected_chars |-> IF blocks # <<>> THEN CharLen(inj) ELSE 0,
         guide |-> guide,
         guide_injected |-> gi \/ guide]

\* custom_generate_chat_prompt(user_input, state) with state["context"] = ctx:
\* the context it leaves in state, the block it capped, whether the guide went
\* into the context, and the flag afterwards
custom_generate_chat_prompt(prs, ps, gi, user_input, ctx, month) ==
    LET mode == Lower(PyOr(ps.guide_mode, JStr(<<"trigger">>)).v)
        inject_now == mode = <<"always">> \/
                      _has_trigger(user_input, ps.guide_triggers.v)
        guide == /\ ps.inject_guide.v
                 /\ inject_now
                 /\ GuideDue(ps, gi)
                 /\ ~Contains(ctx, GuideMarker)
        ctx1 == IF guide
                THEN Strip(_get_guide_text(ps, ps.guide_lang.v) \o <<NL, NL>> \o ctx)
                ELSE ctx
        ms == _collect_memories_for(prs, user_input)
        lines == (IF ps.timecontext.v THEN <<TimeLine>> ELSE <<>>) \o
                 (IF ps.datecontext.v THEN <<DateLine(month)>> ELSE <<>>) \o
                 (IF ms # <<>> THEN <<<<"[Memories]">>>> \o ms ELSE <<>>)
        block == _cap(Strip(JoinWith(lines, <<NL>>)), ps.max_context_chars.v)
    IN  [context |-> IF lines # <<>> THEN Strip(block \o <<NL, NL>> \o ctx1)
                     ELSE ctx1,
         block |-> IF lines # <<>> THEN block ELSE <<>>,
         guide |-> guide,
         guide_injected |-> gi \/ guide]

----------------------------------------------------------------------------
(* The state machine of the sequential store operations *)

NoThread == 0

\* the threads of the process
Threads == {1, 2}

\* a thread that runs no operation; else: the operation and its argument, the
\* position in it, the dict `data` of _save (built: it exists; snap: the
\* settings copied into it; live: its "pairs" is the list _params holds, else
\* old is that list), raw: what _load read, and for the claims: the threads
\* whose `data` is older, and whether a younger `data` was written already
Idle ==
    [op |-> "idle", pc |-> "idle", arg |-> <<>>, built |-> FALSE, live |-> FALSE,
     old |-> <<>>, snap |-> DEFAULTS, raw |-> JDict(<<>>), older |-> {},
     stale |-> FALSE]

Store ==
    [MkStore(pairs, params, file) EXCEPT
        !.disk = disk, !.alias = defaults_pairs.alias, !.shared = defaults_pairs.v]

\* the record of a call: its name, the arguments of an _append_memory call,
\* its result, and whether it repeats the call before it
Call(op, args, ok, msg) ==
    [op |-> op, args |-> args, ok |-> ok, msg |-> msg,
     rep |-> (last.op = op /\ op = "append" /\ last.args = args)]

\* the record of a call that left store st: an exception that came out of it
\* takes the place of its result
Ended(st, op, args, ok, msg) ==
    IF st.raised THEN Call(op, args, FALSE, "raised") ELSE Call(op, args, ok, msg)

\* texts the operations are called with
TeaText == <<"user", SP, "likes", SP, "tea", ".">>
TeaQuoted == <<SP, QUOT, "user", SP, NL, "likes", SP, "tea", ".", QUOT>>
NowText == <<"remember", SP, "this", SP, "now">>
DupText == <<"dup">>

\* (memory, keywords, always) arguments of the save pipeline and of the Add tab
SaveArgs ==
    { <<TeaText, <<"tea">>, FALSE>>, <<TeaText, <<"Tea">>, FALSE>>,
      <<TeaQuoted, <<"tea">>, FALSE>>, <<NowText, <<>>, TRUE>>,
      <<DupText, <<>>, TRUE>>, <<<<>>, <<"tea">>, FALSE>>,
      <<<<JsonTeaAlways>>, <<>>, FALSE>> }

\* (memory, keywords, always) values typed into the Edit tab
EditArgs ==
    { <<TeaText, <<"tea">>, FALSE>>, <<NowText, <<>>, TRUE>>,
      <<<<>>, <<>>, FALSE>> }

\* the fewer arguments of the specification with every store operation
AdminSaveArgs == { <<TeaText, <<"tea">>, FALSE>>, <<NowText, <<>>, TRUE>> }
AdminEditArgs == { <<TeaText, <<"tea">>, FALSE>> }

\* the text of the trigger box: ", ".join(DEFAULTS["guide_triggers"])
RECURSIVE JoinComma(_)
JoinComma(l) ==
    IF l = <<>> THEN <<>>
    ELSE IF Len(l) = 1 THEN l[1].v
    ELSE l[1].v \o <<",", SP>> \o JoinComma(Tail(l))

\* the state after the module is imported: _init() has run _load() once
\* (_params = dict(DEFAULTS) shares the list DEFAULTS["pairs"]; _init() catches
\* what _load() raises)
InitStore(f) ==
    [_load([MkStore(<<>>, DEFAULTS, f) EXCEPT !.alias = TRUE], 0) EXCEPT
        !.raised = FALSE]

InitFrom(f) ==
    /\ pairs = InitStore(f).pairs
    /\ params = InitStore(f).params
    /\ file = InitStore(f).file
    /\ disk = "ok"
    /\ defaults_pairs = [alias |-> InitStore(f).alias, v |-> InitStore(f).shared]
    /\ fingerprints = {}
    /\ now = 0
    /\ last = [op |-> "init", args |-> <<>>, ok |-> TRUE, msg |-> "", rep |-> FALSE]
    /\ reply = NoOutput
    /\ backups = <<>>
    /\ threads = [t \in Threads |-> Idle]
    /\ lock = NoThread
    /\ guide_injected = FALSE
    /\ dd = [edit |-> _choices(InitStore(f).pairs),
             del |-> _choices(InitStore(f).pairs)]

Init == InitFrom(NoFile)

SetStore(st) ==
    /\ Len(st.pairs) <= MaxPairs
    /\ pairs' = st.pairs
    /\ params' = st.params
    /\ file' = st.file
    /\ defaults_pairs' = [alias |-> st.alias, v |-> IF st.alias THEN <<>> ELSE st.shared]
    /\ disk' = disk

\* the save pipeline is called with (memory, keywords, always) = x
ModelSave(args) ==
    \E x \in args :
        LET r == _append_memory(Store, x[1], x[2], x[3], now)
        IN  /\ SetStore(r.st)
            /\ last' = Ended(r.st, "append", x, r.ok, r.msg)
            /\ UNCHANGED <<fingerprints, now, guide_injected, reply, backups, threads, lock, dd>>

\* the Add tab's button
UiAdd(args) ==
    \E x \in args :
        LET r == _add(Store, x[1], x[2], x[3], now)
        IN  /\ SetStore(r.st)
            /\ last' = Ended(r.st, "add", <<>>, TRUE, r.msg)
            /\ UNCHANGED <<fingerprints, now, guide_injected, reply, backups, threads, lock, dd>>

\* the Edit tab's Apply button
UiEdit(args) ==
    \E sel \in (0..MaxPairs) \cup {NoSel}, x \in args :
        LET r == _upd(Store, sel, x[1], x[2], x[3])
        IN  /\ SetStore(r.st)
            /\ last' = Ended(r.st, "edit", <<>>, r.msg # "IndexError", r.msg)
            /\ UNCHANGED <<fingerprints, now, guide_injected, reply, backups, threads, lock, dd>>

\* the Delete tab's button
UiDelete ==
    \E sel \in (0..MaxPairs) \cup {NoSel} :
        LET r == _delete(Store, sel)
        IN  /\ SetStore(r.st)
            /\ last' = Ended(r.st, "delete", <<>>, TRUE, r.msg)
            /\ UNCHANGED <<fingerprints, now, guide_injected, reply, backups, threads, lock, dd>>

\* the Delete tab's delete-all button
UiDeleteAll ==
    \E confirm \in BOOLEAN :
        LET r == _delete_all(Store, backups, confirm, now)
        IN  /\ SetStore(r.st)
            /\ backups' = r.backups
            /\ dd' = IF r.st.raised THEN dd
                     ELSE [dd EXCEPT !.del = _choices(r.st.pairs)]
            /\ last' = Ended(r.st, "delete_all", <<>>, TRUE, r.msg)
            /\ UNCHANGED <<fingerprints, now, guide_injected, reply, threads, lock>>

\* reload_memories_into_ki / the reload button
Reload ==
    /\ SetStore(_load(Store, now))
    /\ last' = Ended(_load(Store, now), "load", <<>>, TRUE, "")
    /\ UNCHANGED <<fingerprints, now, guide_injected, reply, backups, threads, lock, dd>>

\* a settings widget changes (here: the allow-model-saves box) while the
\* trigger box holds one of the texts trig
ApplySettings(trig) ==
    \E allow \in BOOLEAN, trig_txt \in trig :
        LET st == _apply_settings(Store, [allow_model_saves |-> JBool(allow)],
                                  trig_txt)
        IN  /\ SetStore(st)
            /\ last' = Ended(st, "settings", <<>>, TRUE, "")
            /\ UNCHANGED <<fingerprints, now, guide_injected, reply, backups, threads, lock, dd>>

\* the trigger box holds the text it was built with
UiApplySettings == ApplySettings({JoinComma(params.guide_triggers.v)})

\* texts typed into the trigger box: one word, two words, nothing
TriggerTexts == {<<"note">>, <<"note", ",", SP, "keep">>, <<>>}

\* the Guide tab's save button
UiSaveGuide ==
    \E txt \in {<<"hello">>} :
        /\ SetStore(_set_guide_text(Store, "en", txt))
        /\ last' = Ended(_set_guide_text(Store, "en", txt), "guide", <<>>, TRUE, "")
        /\ UNCHANGED <<fingerprints, now, guide_injected, reply, backups, threads, lock, dd>>

\* texts the model writes: a directive with text around it, the same directive
\* on two lines, a filtered directive twice on one line, no directive, and a
\* directive with a trailing flag on a line of its own between two lines
OutEmbedded ==
    <<"hello", SP, "save:", SP, "(", "remember", SP, "this", ")", SP, "world">>
OutTwice ==
    <<"save:", SP, "(", "remember", SP, "this", SP, "now", ")", NL,
      "save:", SP, "(", "remember", SP, "this", SP, "now", ")">>
OutDupTwice ==
    <<"save:", SP, "(", "dup", ")", SP, "save:", SP, "(", "dup", ")">>
OutPlain == <<"hello", SP, "world">>
OutOwnLine ==
    <<"hello", NL, "save:", SP, "(", "user", SP, "likes", SP, "tea", ".", ")", SP,
      "[", "keywords", "=", "tea", "]", NL, "bye">>

OutTexts == {OutEmbedded, OutTwice, OutDupTwice, OutPlain, OutOwnLine}

\* the host passes the model's reply through output_modifier
OutputModifier(texts) ==
    \E text \in texts :
        \E r \in {output_modifier(Store, fingerprints, text, now)} :
            /\ SetStore(r.st)
            /\ fingerprints' = r.fps
            /\ reply' = [text |-> text, ret |-> r.ret, matches |-> r.matches,
                         calls |-> r.calls,
                         allowed |-> params.allow_model_saves.v,
                         fresh |-> (pairs = <<>> /\ fingerprints = {})]
            /\ last' = Ended(r.st, "output", <<>>, TRUE, "")
            /\ UNCHANGED <<now, guide_injected, backups, threads, lock, dd>>

\* every store operation, one after the other
Next ==
    \/ ModelSave(AdminSaveArgs)
    \/ UiAdd(AdminSaveArgs)
    \/ UiEdit(AdminEditArgs)
    \/ UiDelete
    \/ UiDeleteAll
    \/ Reload
    \/ UiApplySettings
    \/ UiSaveGuide

Spec == Init /\ [][Next]_vars

\* the save pipeline and the entry operations of the UI, with more texts
NextSave ==
    \/ ModelSave(SaveArgs)
    \/ UiAdd(SaveArgs)
    \/ UiEdit(EditArgs)
    \/ UiDelete
    \/ Reload

SpecSave == Init /\ [][NextSave]_vars

\* the host's output hook, with the settings box and the Delete tab beside it
NextOut ==
    \/ OutputModifier(OutTexts)
    \/ UiApplySettings
    \/ UiDelete

SpecOut == Init /\ [][NextOut]_vars

\* the disk starts or stops refusing writes
DiskChanges ==
    /\ disk' \in {"ok", "denied", "full"} \ {disk}
    /\ UNCHANGED <<pairs, params, file, fingerprints, now, guide_injected, last, reply,
                   defaults_pairs, backups, threads, lock, dd>>

\* the store operations on a disk that may refuse writes
NextFail ==
    \/ DiskChanges
    \/ ModelSave(AdminEditArgs)
    \/ OutputModifier({OutEmbedded})
    \/ UiAdd(AdminEditArgs)
    \/ UiEdit(AdminEditArgs)
    \/ UiDelete
    \/ Reload

SpecFail == Init /\ [][NextFail]_vars

\* the delete-all button on a disk that may refuse writes
NextFailAll ==
    \/ DiskChanges
    \/ ModelSave(AdminEditArgs)
    \/ UiAdd(AdminEditArgs)
    \/ UiEdit(AdminEditArgs)
    \/ UiDelete
    \/ UiDeleteAll
    \/ Reload

SpecFailAll == Init /\ [][NextFailAll]_vars

\* a stored document with one entry and the one setting k at value v
StoredDoc(k, v) ==
    JsonFile(JDict((k :> v) @@
        ("pairs" :> PairsToJson(<<[memory |-> TeaText, keywords |-> <<"tea">>,
                                   always |-> FALSE, created_at |-> 0]>>))))

\* the settings _sanitize reads with _coerce_bool
BoolKeys ==
    {"timecontext", "datecontext", "debug", "inject_guide", "guide_once",
     "hint_on_triggers", "allow_model_saves"}

\* the settings _sanitize reads with .lower()
StrKeys == {"ui_lang", "guide_lang", "guide_mode"}

\* contents of MEM_PATH when the module is imported: no file, a file that is not
\* JSON, JSON that is not an object, documents this program or a later schema
\* version wrote, and documents whose fields hold values of another type
LoadFiles ==
    {NoFile, Garbage, JsonFile(JList(<<>>)), JsonFile(JNum(1)),
     JsonFile(FreshDoc),
     StoredDoc("version", JNum(1)), StoredDoc("version", JNum(2)),
     StoredDoc("version", JStr(<<"2">>)), StoredDoc("version", JStr(<<"abc">>)),
     StoredDoc("version", JNull),
     StoredDoc("guide_triggers", JList(<<>>)),
     StoredDoc("guide_triggers", JList(<<JStr(<<"note">>), JNum(1)>>)),
     StoredDoc("guide_triggers", JStr(<<"a", "b">>)),
     StoredDoc("guide_triggers", JNum(1)),
     StoredDoc("pairs", JNum(1)), StoredDoc("pairs", JNum(0)),
     StoredDoc("pairs", JStr(<<"x">>)), StoredDoc("pairs", JNull),
     StoredDoc("pairs", JList(<<JNum(1), JStr(<<"x">>)>>))}
    \cup {StoredDoc(k, v) : k \in BoolKeys,
                            v \in {JNull, JNum(0), JNum(1), JBool(FALSE),
                                   JStr(<<"yes">>)}}
    \cup {StoredDoc(k, v) : k \in StrKeys,
                            v \in {JStr(<<"de">>), JNull, JNum(1), JBool(TRUE),
                                   JList(<<JStr(<<"de">>)>>)}}

\* the module is imported next to any of these files
InitLoad == \E f \in LoadFiles : InitFrom(f)

\* reloading and saving next to a file the program found at its start
NextLoad ==
    \/ Reload
    \/ ModelSave(AdminSaveArgs)
    \/ UiApplySettings

SpecLoad == InitLoad /\ [][NextLoad]_vars

\* the settings tab with an edited trigger box, beside the entry operations
NextRound ==
    \/ ApplySettings(TriggerTexts)
    \/ ModelSave(AdminSaveArgs)
    \/ UiEdit(EditArgs)
    \/ UiDelete
    \/ Reload

SpecRound == Init /\ [][NextRound]_vars

\* texts typed into the test box of the diagnostics tab; "teas" is the one
\* word "tea" + "s"
MatchTexts ==
    {<<>>, <<"hello">>, <<"so", SP, "Tea">>, <<"tea", "s">>, <<"kw">>}

\* the test button of the diagnostics tab: _test_match(s)
UiTestMatch ==
    \E s \in MatchTexts :
        /\ last' = [op |-> "test_match", args |-> s, ok |-> TRUE, msg |-> "",
                    rep |-> FALSE, ret |-> _collect_memories_for(pairs, s)]
        /\ UNCHANGED <<pairs, params, file, fingerprints, now, guide_injected, reply, disk,
                       defaults_pairs, backups, threads, lock, dd>>

\* entries for the matcher: one keyword, two keywords, upper case, a regex,
\* the same text under another keyword, always
MatchSaveArgs ==
    { <<TeaText, <<"tea">>, FALSE>>, <<TeaText, <<"kw", ",", SP, "Tea">>, FALSE>>,
      <<NowText, <<"r/", "tea", "/">>, FALSE>>, <<NowText, <<>>, TRUE>> }

\* what the Edit tab may hold: the fields of an entry, or a cleared memory box
MatchEditArgs ==
    { <<TeaText, <<"tea">>, FALSE>>, <<<<>>, <<"tea">>, FALSE>>,
      <<<<>>, <<>>, TRUE>> }

\* the diagnostics tab beside the operations that change entries
NextMatch ==
    \/ UiTestMatch
    \/ ModelSave(MatchSaveArgs)
    \/ UiEdit(MatchEditArgs)
    \/ UiDelete

SpecMatch == Init /\ [][NextMatch]_vars

\* memory texts around the limits of the relevance filter: 11 and 12
\* characters, two and three words, with and without a sentence end, a banned
\* phrase in lower and in upper case, blanks and quotes around the text
RelevanceTexts ==
    { TeaText, NowText, DupText,
      <<"remember", SP, "now">>,
      <<"remember", SP, "so", ".">>,
      <<"remember", SP, "kw">>,
      <<"hello", SP, "tea", SP, "y">>,
      <<"hello", SP, "tea", SP, "ok">>,
      <<"remember", SP, "keywords">>,
      <<"remember", SP, "keywords", "!">>,
      <<SP, "remember", SP, "kw", SP, SP>>,
      <<"user", SP, "so", SP, "not", SP, "likes", SP, "tea", ".">>,
      <<"user", SP, "So", SP, "not", SP, "likes", SP, "tea", ".">>,
      <<QUOT, "remember", SP, "keywords", ".", QUOT>> }

RelevanceArgs == { <<s, <<>>, FALSE>> : s \in RelevanceTexts }

\* the save pipeline with these texts, beside the Delete tab
NextRelevant ==
    \/ ModelSave(RelevanceArgs)
    \/ UiDelete

SpecRelevant == Init /\ [][NextRelevant]_vars

\* replies whose directive carries a JSON object: without an always field,
\* with the strings "no" and "yes", with the boolean true
JsonTexts == { <<"ok", SP, "save:", SP, j>> : j \in JsonToks }

\* the output hook on these replies, with the Delete tab and the settings box
NextParse ==
    \/ OutputModifier(JsonTexts \cup {OutEmbedded})
    \/ UiDelete
    \/ UiApplySettings

SpecParse == Init /\ [][NextParse]_vars

\* replies with a brace payload that is not JSON: closed, never closed, and
\* closed with a well-formed directive on the line before it
BadJson ==
    <<"ok", SP, "save:", SP, "{", "user", SP, "likes", SP, "tea", ".", "}">>
OpenBrace ==
    <<"ok", SP, "save:", SP, "{", "user", SP, "likes", SP, "tea", ".">>
GoodThenBadJson ==
    <<"save:", SP, "(", "remember", SP, "this", SP, "now", ")", NL,
      "save:", SP, "{", "user", SP, "likes", SP, "tea", ".", "}">>

MalformedTexts == {BadJson, OpenBrace, GoodThenBadJson}

\* the output hook on these replies, with the Delete tab and the settings box
NextMalformed ==
    \/ OutputModifier(MalformedTexts \cup {OutEmbedded, OutPlain})
    \/ UiDelete
    \/ UiApplySettings

SpecMalformed == Init /\ [][NextMalformed]_vars

\* replies with annotations: a [keywords=...] behind other text, an
\* [always=true] behind a payload that says always=false, and a [keywords=...]
\* that belongs to the second of two directives
FlagApart ==
    <<"save:", SP, "(", "user", SP, "likes", SP, "tea", ".", ")", SP,
      "hello", SP, "[", "keywords", "=", "kw", "]">>
ExplicitFalse ==
    <<"save:", SP, "(", "memory", "=", "user", SP, "likes", SP, "tea", ".", ",",
      SP, "always", "=", "false", ")", SP, "[", "always", "=", "true", "]">>
FlagOfSecond ==
    <<"save:", SP, "(", "user", SP, "likes", SP, "tea", ".", ")", NL,
      "save:", SP, "(", "dup", ")", SP, "[", "keywords", "=", "kw", "]">>

FlagTexts == {FlagApart, ExplicitFalse, FlagOfSecond, OutOwnLine}

\* the output hook on these replies, with the Delete tab and the settings box
NextFlags ==
    \/ OutputModifier(FlagTexts)
    \/ UiDelete
    \/ UiApplySettings

SpecFlags == Init /\ [][NextFlags]_vars

\* s between two quote characters q; no quotes for q = ""
Wrap(q, s) == IF q = "" THEN s ELSE <<q>> \o s \o <<q>>

\* texts for _normalize_memory_text: a word, a sentence, a text with runs of
\* blanks, the empty text; bare, in one layer and in two layers of quote
\* characters, and in &quot; entities
NormCores ==
    {<<"tea">>, TeaText, <<SP, "tea", SP, NL, "kw", SP>>, <<>>}

NormTexts ==
    {Wrap(a, Wrap(b, c)) : a \in QuoteToks \cup {""}, b \in QuoteToks \cup {""},
                           c \in NormCores}
    \cup {<<"&quot;">> \o Wrap(b, c) \o <<"&quot;">> : b \in {QUOT, ""},
                                                      c \in NormCores}

\* _normalize_memory_text is applied to a text, as _append_memory does with
\* its argument
NormalizeText ==
    \E s \in NormTexts :
        /\ last' = [op |-> "normalize", args |-> s, ok |-> TRUE, msg |-> "",
                    rep |-> FALSE, ret |-> _normalize_memory_text(s)]
        /\ UNCHANGED <<pairs, params, file, fingerprints, now, guide_injected, reply, disk,
                       defaults_pairs, backups, threads, lock, dd>>

\* ... and to the text it returned, as _append_memory does with the memory
\* field of a JSON object whose text it has normalised before
NormalizeAgain ==
    /\ last.op = "normalize"
    /\ last' = [last EXCEPT !.args = last.ret,
                            !.ret = _normalize_memory_text(last.ret)]
    /\ UNCHANGED <<pairs, params, file, fingerprints, now, guide_injected, reply, disk,
                   defaults_pairs, backups, threads, lock, dd>>

NextNormalize ==
    \/ NormalizeText
    \/ NormalizeAgain
    \/ ModelSave(AdminSaveArgs)

SpecNormalize == Init /\ [][NextNormalize]_vars

----------------------------------------------------------------------------
(* The input hooks *)

\* a settings widget changes; w holds the widgets that differ from _params
HookSettings(W) ==
    \E w \in W :
        LET st == _apply_settings(Store, w, JoinComma(params.guide_triggers.v))
        IN  /\ SetStore(st)
            /\ last' = Ended(st, "settings", <<>>, TRUE, "")
            /\ UNCHANGED <<fingerprints, now, guide_injected, reply, backups, threads, lock, dd>>

\* the web UI passes the user's text through input_modifier
InputModifier(texts) ==
    \E user_input \in texts, month \in Months :
        \E r \in {input_modifier(pairs, params, guide_injected, user_input, month)} :
            /\ guide_injected' = r.guide_injected
            /\ last' = [op |-> "input", args |-> user_input, ok |-> TRUE, msg |-> "",
                        rep |-> FALSE, ret |-> r.ret, block |-> r.block,
                        last_injected_memories |-> r.last_injected_memories,
                        last_injected_chars |-> r.last_injected_chars,
                        guide |-> r.guide]
            /\ UNCHANGED <<pairs, params, file, fingerprints, now, reply, disk,
                           defaults_pairs, backups, threads, lock, dd>>

\* the web UI builds a chat prompt: custom_generate_chat_prompt(user_input, state)
ChatPrompt(texts, contexts) ==
    \E user_input \in texts, ctx \in contexts, month \in Months :
        \E r \in {custom_generate_chat_prompt(pairs, params, guide_injected,
                                              user_input, ctx, month)} :
            /\ guide_injected' = r.guide_injected
            /\ last' = [op |-> "chat", args |-> user_input, ok |-> TRUE, msg |-> "",
                        rep |-> FALSE, ret |-> r.context, block |-> r.block,
                        guide |-> r.guide]
            /\ UNCHANGED <<pairs, params, file, fingerprints, now, reply, disk,
                           defaults_pairs, backups, threads, lock, dd>>

\* what the user types: no keyword and no trigger, a keyword, a trigger and a
\* keyword
HookTexts == {<<"hello">>, <<"so", SP, "Tea">>, <<"remember", SP, "tea">>}

\* state["context"] as the web UI hands it over: empty, a character's context,
\* a context that holds the guide already
Contexts == {<<>>, <<"hello", SP, "world">>, GuideMarker \o <<NL, "hello">>}

\* values of "max_context_chars" in the file, and positions of the slider
FileCaps == {0, 10, 50, 70, 1200}
SliderCaps == {0, 50, 1200}

CapFiles == {StoredDoc("max_context_chars", JNum(n)) : n \in FileCaps}

CapWidgets ==
    {[timecontext |-> JBool(t), datecontext |-> JBool(d),
      max_context_chars |-> JNum(m)] : t, d \in BOOLEAN, m \in SliderCaps}

InitCap == \E f \in CapFiles : InitFrom(f)

NextCap ==
    \/ InputModifier(HookTexts)
    \/ ChatPrompt(HookTexts, Contexts)
    \/ HookSettings(CapWidgets)
    \/ ModelSave(AdminSaveArgs)

SpecCap == InitCap /\ [][NextCap]_vars

\* files that set what the settings tab has no widget for
GuideFiles ==
    {NoFile, StoredDoc("guide_mode", JStr(<<"always">>)),
     StoredDoc("hint_on_triggers", JBool(FALSE))}

OnceWidgets ==
    {[inject_guide |-> JBool(g), guide_once |-> JBool(o)] : g, o \in BOOLEAN}

InitGuide == \E f \in GuideFiles : InitFrom(f)

NextGuide ==
    \/ InputModifier(HookTexts)
    \/ ChatPrompt(HookTexts, Contexts)
    \/ HookSettings(OnceWidgets)
    \/ UiSaveGuide
    \/ Reload

SpecGuide == InitGuide /\ [][NextGuide]_vars

----------------------------------------------------------------------------
(* Entries over time *)

\* a second passes on the clock behind datetime.now()
Tick ==
    /\ now < MaxNow
    /\ now' = now + 1
    /\ UNCHANGED <<pairs, params, file, fingerprints, guide_injected, last, reply,
                   disk, defaults_pairs, backups, threads, lock, dd>>

\* a file whose entry has no "created_at", as written by hand
LegacyDoc ==
    JsonFile(JDict([pairs |->
        JList(<<JDict([memory |-> JStr(TeaText), keywords |-> JStr(<<"tea">>),
                       always |-> JBool(FALSE)])>>)]))

CreatedFiles == {NoFile, LegacyDoc, StoredDoc("version", JNum(1))}

InitCreated == \E f \in CreatedFiles : InitFrom(f)

NextCreated ==
    \/ Tick
    \/ ModelSave(AdminSaveArgs)
    \/ UiAdd(AdminSaveArgs)
    \/ UiEdit(AdminEditArgs)
    \/ UiDelete
    \/ Reload

SpecCreated == InitCreated /\ [][NextCreated]_vars

----------------------------------------------------------------------------
(* The dropdowns of the Edit and the Delete tab *)

\* the "reload choices" buttons: gr.update(choices=_choices(), value=None)
RefreshChoices ==
    \E tab \in {"edit", "del"} :
        /\ dd' = [dd EXCEPT ![tab] = _choices(pairs)]
        /\ last' = Call("choices", <<>>, TRUE, "")
        /\ UNCHANGED <<pairs, params, file, fingerprints, now, guide_injected, reply,
                       disk, defaults_pairs, backups, threads, lock>>

\* the user selects a choice of the Edit tab's dropdown and clicks Apply:
\* _upd(sel, m, k, a) with idx = int(sel.split(":")[0])
ClickApply(args) ==
    \E c \in 1..Len(dd.edit), x \in args :
        LET sel == dd.edit[c]
            r == _upd(Store, sel.idx, x[1], x[2], x[3])
        IN  /\ SetStore(r.st)
            /\ last' = Ended(r.st, "edit", sel, r.msg # "IndexError", r.msg)
            /\ UNCHANGED <<fingerprints, now, guide_injected, reply, backups, threads, lock, dd>>

\* the user selects a choice of the Delete tab's dropdown and clicks Delete
ClickDelete ==
    \E c \in 1..Len(dd.del) :
        LET sel == dd.del[c]
            r == _delete(Store, sel.idx)
        IN  /\ SetStore(r.st)
            /\ last' = Ended(r.st, "delete", sel, TRUE, r.msg)
            /\ UNCHANGED <<fingerprints, now, guide_injected, reply, backups, threads, lock, dd>>

\* what the model saves meanwhile
PickSaveArgs == { <<TeaText, <<"tea">>, FALSE>> }

\* what the Edit tab's boxes hold at the click
PickEditArgs == { <<DupText, <<"kw">>, FALSE>> }

NextPick ==
    \/ RefreshChoices
    \/ ClickApply(PickEditArgs)
    \/ ClickDelete
    \/ ModelSave(PickSaveArgs)
    \/ UiDeleteAll
    \/ Reload

SpecPick == Init /\ [][NextPick]_vars

\* delete-all with a moving clock, and the model saving in between
NextBackup ==
    \/ Tick
    \/ ModelSave(AdminSaveArgs)
    \/ UiDeleteAll

SpecBackup == Init /\ [][NextBackup]_vars

----------------------------------------------------------------------------
(* Two threads: the host's generation thread and a UI callback *)

\* the next position of a thread that waits for _IO_LOCK
AfterLock(pc) ==
    CASE pc = "lock_write" -> "write"
      [] pc = "lock_read" -> "read"
      [] pc = "lock_copy" -> "copy"

\* the next position of a thread after _ensure_storage
AfterEnsure(pc) ==
    CASE pc = "ensure_save" -> "build"
      [] pc = "ensure_load" -> "lock_read"
      [] pc = "ensure_backup" -> "lock_copy"

\* the (memory, keywords, always) a thread calls _append_memory with
ConcArgs == { <<TeaText, <<"tea">>, FALSE>> }

\* the calls a thread makes: _append_memory(x), the delete-all button, _load
ConcCalls ==
    {[op |-> "append", pc |-> "append", arg |-> x] : x \in ConcArgs}
        \cup {[op |-> "delete_all", pc |-> "ensure_backup", arg |-> <<>>],
              [op |-> "load", pc |-> "ensure_load", arg |-> <<>>]}

\* thread t holds a dict `data` it has not written yet
Pending(th) == th.built

\* _params["pairs"] is bound to another list: a dict `data` that holds the old
\* list keeps it, with the entries it has now
Rebind(ths, t) ==
    [u \in Threads |->
        IF u # t /\ ths[u].built /\ ths[u].live
        THEN [ths[u] EXCEPT !.live = FALSE, !.old = pairs]
        ELSE ths[u]]

\* a thread calls an operation
Begin(t) ==
    /\ threads[t].pc = "idle"
    /\ \E c \in ConcCalls :
          threads' = [threads EXCEPT ![t] =
                         [Idle EXCEPT !.op = c.op, !.pc = c.pc, !.arg = c.arg]]
    /\ UNCHANGED <<pairs, params, file, fingerprints, now, guide_injected, last, reply, disk, defaults_pairs, backups, lock, dd>>

\* _append_memory up to the end of its loop over the entries: the filters and
\* the duplicate test
CheckEntry(t) ==
    LET x == threads[t].arg
        r == _append_memory(Store, x[1], x[2], x[3], now)
    IN  /\ threads[t].pc = "append"
        /\ IF r.ok
           THEN /\ threads' = [threads EXCEPT ![t].pc = "add"]
                /\ UNCHANGED last
           ELSE /\ threads' = [threads EXCEPT ![t] = Idle]
                /\ last' = Call("append", x, FALSE, r.msg)
        /\ UNCHANGED <<pairs, params, file, fingerprints, now, guide_injected, reply, disk, defaults_pairs, backups, lock, dd>>

\* _params.setdefault("pairs", []).append(entry), outside _IO_LOCK
AppendEntry(t) ==
    LET x == threads[t].arg
        entry == NewEntry(x[1], x[2], x[3], now)
    IN  /\ threads[t].pc = "add"
        /\ Len(pairs) < MaxPairs
        /\ pairs' = Append(pairs, entry)
        /\ threads' = [threads EXCEPT ![t].pc = "ensure_save"]
        /\ UNCHANGED <<params, file, fingerprints, now, guide_injected, last, reply, disk, defaults_pairs, backups, lock, dd>>

\* _ensure_storage at the head of _save, _load and _backup_memories
EnsureStorage(t) ==
    /\ threads[t].pc \in {"ensure_save", "ensure_load", "ensure_backup"}
    /\ file' = _ensure_storage(file)
    /\ threads' = [threads EXCEPT ![t].pc = AfterEnsure(threads[t].pc)]
    /\ UNCHANGED <<pairs, params, fingerprints, now, guide_injected, last, reply, disk, defaults_pairs, backups, lock, dd>>

\* _save builds the dict `data`: the settings are copied, "pairs" is the list
\* _params holds; the dicts other threads have built and not written are older
BuildData(t) ==
    /\ threads[t].pc = "build"
    /\ threads' = [threads EXCEPT ![t] =
                      [@ EXCEPT !.pc = "lock_write", !.built = TRUE, !.live = TRUE,
                                !.snap = params,
                                !.older = {u \in Threads \ {t} : Pending(threads[u])}]]
    /\ UNCHANGED <<pairs, params, file, fingerprints, now, guide_injected, last, reply, disk, defaults_pairs, backups, lock, dd>>

\* with _IO_LOCK: the thread takes the lock when nobody holds it
Acquire(t) ==
    /\ threads[t].pc \in {"lock_write", "lock_read", "lock_copy"}
    /\ lock = NoThread
    /\ lock' = t
    /\ threads' = [threads EXCEPT ![t].pc = AfterLock(threads[t].pc)]
    /\ UNCHANGED <<pairs, params, file, fingerprints, now, guide_injected, last, reply, disk, defaults_pairs, backups, dd>>

\* json.dump(data, f) under the lock, and the lock's release: the list is
\* serialised with the entries it holds now; _delete_all then hands the
\* Delete tab's dropdown its new choices
WriteFile(t) ==
    LET th == threads[t]
        entries == IF th.live THEN pairs ELSE th.old
    IN  /\ th.pc = "write" /\ lock = t
        /\ file' = JsonFile(SaveData(th.snap, entries))
        /\ lock' = NoThread
        /\ threads' = [u \in Threads |->
                          IF u = t THEN Idle
                          ELSE [threads[u] EXCEPT
                                   !.older = @ \ {t},
                                   !.stale = @ \/ (threads[u].built /\ u \in th.older)]]
        /\ last' = Call(th.op, th.arg, TRUE,
                        IF th.stale THEN "stale write" ELSE "saved")
        /\ dd' = IF th.op = "delete_all" THEN [dd EXCEPT !.del = _choices(pairs)]
                 ELSE dd
        /\ UNCHANGED <<pairs, params, fingerprints, now, guide_injected, reply, disk, defaults_pairs, backups>>

\* shutil.copy2(MEM_PATH, bak) under the lock, and the lock's release
CopyBackup(t) ==
    /\ threads[t].pc = "copy" /\ lock = t
    /\ backups' = _backup_memories(Store, backups, now).backups
    /\ lock' = NoThread
    /\ threads' = [threads EXCEPT ![t].pc = "clear"]
    /\ UNCHANGED <<pairs, params, file, fingerprints, now, guide_injected, last, reply, disk, defaults_pairs, dd>>

\* _params["pairs"] = []
ClearPairs(t) ==
    /\ threads[t].pc = "clear"
    /\ pairs' = <<>>
    /\ threads' = [Rebind(threads, t) EXCEPT ![t].pc = "ensure_save"]
    /\ UNCHANGED <<params, file, fingerprints, now, guide_injected, last, reply, disk, defaults_pairs, backups, lock, dd>>

\* raw = json.load(f) under the lock, and the lock's release
ReadFile(t) ==
    /\ threads[t].pc = "read" /\ lock = t
    /\ lock' = NoThread
    /\ threads' = [threads EXCEPT ![t].pc = "update", ![t].raw = file.doc]
    /\ UNCHANGED <<pairs, params, file, fingerprints, now, guide_injected, last, reply, disk, defaults_pairs, backups, dd>>

\* _params.update(_sanitize(raw)), after the lock is released
UpdateParams(t) ==
    LET got == _sanitize(threads[t].raw, now)
    IN  /\ threads[t].pc = "update"
        /\ pairs' = got.pairs
        /\ params' = got.params
        /\ threads' = [Rebind(threads, t) EXCEPT ![t] = Idle]
        /\ last' = Call("load", <<>>, TRUE, "")
        /\ UNCHANGED <<file, fingerprints, now, guide_injected, reply, disk, defaults_pairs, backups, lock, dd>>

NextConc ==
    \E t \in Threads :
        \/ Begin(t)
        \/ CheckEntry(t)
        \/ AppendEntry(t)
        \/ EnsureStorage(t)
        \/ BuildData(t)
        \/ Acquire(t)
        \/ WriteFile(t)
        \/ CopyBackup(t)
        \/ ClearPairs(t)
        \/ ReadFile(t)
        \/ UpdateParams(t)

SpecConc == Init /\ [][NextConc]_vars

----------------------------------------------------------------------------
(* Claims about the store operations *)

\* the entries the backing file holds
FileEntries(f) == f.doc.v.pairs

\* the calls that change the store: every call but a reload
MutatingOps == {"append", "add", "edit", "delete", "delete_all", "settings", "guide"}

\* C1: after any sequence of store operations no two entries of _params["pairs"]
\* have the same (memory, keywords, always) triple
C1_UniqueTriples ==
    \A i, j \in 1..Len(pairs) :
        i # j => <<pairs[i].memory, pairs[i].keywords, pairs[i].always>>
                 # <<pairs[j].memory, pairs[j].keywords, pairs[j].always>>

\* C2: a call that has changed the entries or the settings has rewritten the
\* backing file before it returns: the file's entries are the in-memory entries
C2_FileFollowsMemory ==
    [][(last'.op \in MutatingOps /\ (pairs' # pairs \/ params' # params))
        => (file'.kind = "json" /\ FileEntries(file') = PairsToJson(pairs'))]_vars

\* C2 witness: an edit and a delete have completed
C2_Witness ==
    /\ last.op = "delete" /\ last.msg = "del_deleted"
    /\ Len(pairs) > 0
    /\ FileEntries(file) = PairsToJson(pairs)

\* C8 as stated: the second of two _append_memory calls in a row with the same
\* arguments returns (False, "Already exists.") and adds no entry
C8_Original ==
    [][(last'.op = "append" /\ last'.rep)
        => (~last'.ok /\ last'.msg = "Already exists."
            /\ Len(pairs') = Len(pairs))]_vars

\* C8 amended: the second call adds no entry and returns False; its message is
\* "Already exists." when the first call saved the entry or found it, and the
\* first call's own rejection (empty, filtered) otherwise
C8_Amended ==
    [][(last'.op = "append" /\ last'.rep)
        => /\ ~last'.ok
           /\ pairs' = pairs
           /\ (last.ok \/ last.msg = "Already exists.")
                 => last'.msg = "Already exists."
           /\ (~last.ok) => last'.msg = last.msg]_vars

\* C8 witness: a repeated call was answered "Already exists."
C8_Witness ==
    last.op = "append" /\ last.rep /\ last.msg = "Already exists." /\ Len(pairs) > 0

\* C9: an _append_memory call either rejects and leaves entries and file as they
\* were, or appends one entry at the end, keeps the others, and writes the file
C9_AppendFrame ==
    [][last'.op = "append"
        => \/ /\ ~last'.ok
              /\ last'.msg \in {"Empty memory.", "Filtered (short/irrelevant).",
                                "Already exists."}
              /\ pairs' = pairs /\ file' = file
           \/ /\ last'.ok
              /\ Len(pairs') = Len(pairs) + 1
              /\ SubSeq(pairs', 1, Len(pairs)) = pairs
              /\ FileEntries(file') = PairsToJson(pairs')]_vars

\* C9 witness: an accepted call behind an earlier entry, and the file holds both
C9_Witness ==
    /\ last.op = "append" /\ last.ok
    /\ Len(pairs) = 2
    /\ FileEntries(file) = PairsToJson(pairs)

----------------------------------------------------------------------------
(* Claims about output_modifier *)

\* the text holds a save directive: one of _SAVE_PATTERNS matches in it
HasDirective(s) == AllMatches(s) # <<>>

\* the number of "save:" markers in a text
Occurrences(s) == Cardinality({i \in 1..Len(s) : s[i] = "save:"})

\* the number of entries the last output_modifier call appended to the store
Appended == Cardinality({i \in 1..Len(reply.calls) : reply.calls[i].ok})

\* C4: with allow_model_saves enabled, every output_modifier call on a text that
\* holds a save directive returns the text without the directive, whatever
\* directives earlier calls processed
C4_DirectiveRemoved ==
    (last.op = "output" /\ reply.allowed /\ HasDirective(reply.text))
        => ~HasDirective(reply.ret)

\* the end of the [keywords=...] / [always=...] brackets that follow offset e
\* of text s immediately
RECURSIVE TrailEnd(_, _)
TrailEnd(s, e) ==
    LET m == FlagAt(s, SkipSpace(s, e), {"keywords", "always"}, FALSE)
    IN  IF m.ok THEN TrailEnd(s, m.end) ELSE e

\* offset i of the text of the last call lies in a matched span or in the
\* annotation brackets that follow one immediately
InSpan(i) ==
    \E k \in 1..Len(reply.matches) :
        /\ reply.matches[k].start <= i
        /\ i < TrailEnd(reply.text, reply.matches[k].end)

\* the tokens of s that are not whitespace
NonSpace(s) == SelectSeq(s, LAMBDA t : ~IsSpace(t))

\* the tokens of the text of the last call from offset i on that lie outside
\* every span
RECURSIVE Outside(_)
Outside(i) ==
    IF i >= Len(reply.text) THEN <<>>
    ELSE (IF InSpan(i) THEN <<>> ELSE <<At(reply.text, i)>>) \o Outside(i + 1)

\* a is b with some tokens left out
RECURSIVE IsSubSeq(_, _)
IsSubSeq(a, b) ==
    IF a = <<>> THEN TRUE
    ELSE IF b = <<>> THEN FALSE
    ELSE IF Head(a) = Head(b) THEN IsSubSeq(Tail(a), Tail(b))
    ELSE IsSubSeq(a, Tail(b))

\* C5: output_modifier removes only the matched spans and the annotation
\* brackets right behind them: what lies outside them in the input is in the
\* returned text, in its order, up to whitespace
C5_OnlySpansRemoved ==
    last.op = "output" =>
        IsSubSeq(NonSpace(Outside(0)), NonSpace(reply.ret))

\* C6: a save directive that occurs once in the text yields exactly one payload
\* and at most one store append, however many patterns match it
C6_OnePayloadPerDirective ==
    (last.op = "output" /\ reply.allowed /\ Occurrences(reply.text) = 1
        /\ HasDirective(reply.text))
        => (Len(reply.matches) = 1 /\ Appended <= 1)

\* texts that hold the same directive save: (X) twice
TwiceTexts == {OutTwice, OutDupTwice}

\* C7: a text that holds the same directive save: (X) twice makes
\* output_modifier, on a store and a fingerprint set that are still empty,
\* append exactly one entry
C7_TwiceAppendsOnce ==
    (last.op = "output" /\ reply.allowed /\ reply.fresh /\ reply.text \in TwiceTexts)
        => (Appended = 1 /\ Len(pairs) = 1)

\* C10: while allow_model_saves is false an output_modifier call returns its
\* text unchanged and leaves entries, file and fingerprints as they were
C10_DisabledIsNoOp ==
    [][(last'.op = "output" /\ (reply' # reply \/ last.op # "output")
            /\ ~params.allow_model_saves.v)
        => /\ reply'.ret = reply'.text
           /\ pairs' = pairs /\ params' = params
           /\ file' = file
           /\ fingerprints' = fingerprints]_vars

\* C10 happens: a text with a directive came back unchanged while saves were off
C10_Witness ==
    /\ last.op = "output" /\ ~reply.allowed
    /\ HasDirective(reply.text) /\ reply.ret = reply.text
    /\ ~params.allow_model_saves.v

----------------------------------------------------------------------------
(* Claims about the lock *)

\* no thread is inside an operation
AllDone == \A t \in Threads : threads[t].pc = "idle"

\* C3: the lock covers the read-modify-write of an operation: once the
\* operations of both threads have finished, the file holds the entries of
\* _params["pairs"], and no dict `data` was written over one built after it
C3_LockCoversOperation ==
    /\ AllDone => (file.kind = "json" /\ FileEntries(file) = PairsToJson(pairs))
    /\ last.msg # "stale write"

----------------------------------------------------------------------------
(* Claims about failing writes *)

\* C11: when delete-all empties the entry list, a backup that holds the
\* content the backing file had before was written first: the entries are
\* never cleared without that backup
C11_BackupBeforeDeleteAll ==
    [][(last'.op = "delete_all" /\ pairs # <<>> /\ pairs' = <<>>)
        => (now \in DOMAIN backups' /\ backups'[now] = file)]_vars

\* the operations of C12: a model save, alone or inside output_modifier, and
\* the add / edit / delete of the UI
SavingOps == {"append", "output", "add", "edit", "delete"}

\* C12: when the file write of _save fails during one of these operations, no
\* exception reaches the caller and the operation changes nothing: the entry
\* list holds no change the file lacks
C12_FailedSaveIsNoOp ==
    [][(disk # "ok" /\ last'.op \in SavingOps /\ last'.msg # "IndexError")
        => (last'.msg # "raised" /\ pairs' = pairs)]_vars

----------------------------------------------------------------------------
(* Loading a malformed file *)

\* C13: _load returns normally for every content of the backing file (absent,
\* not JSON, JSON that is not an object, an object with fields of wrong types):
\* no reload ends with an exception
C13_LoadNeverRaises == last.op = "load" => last.msg # "raised"

\* the settings the claim names: each has the default True
NamedBoolKeys ==
    {"timecontext", "datecontext", "inject_guide", "guide_once",
     "hint_on_triggers", "allow_model_saves"}

\* C14: after _load has read a document in which one of the named boolean
\* settings holds null or a number, the in-memory setting has the value
\* DEFAULTS gives it
C14_MalformedBoolTakesDefault ==
    (last.op = "load" /\ last.msg # "raised" /\ file.kind = "json"
        /\ file.doc.t = "dict")
    => \A k \in NamedBoolKeys :
          (k \in DOMAIN file.doc.v /\ file.doc.v[k].t \in {"null", "num"})
          => params[k] = DEFAULTS[k]

\* the version a file stores, -1 when it stores none that is a number
VersionOf(f) ==
    IF f.kind = "json" /\ f.doc.t = "dict" /\ "version" \in DOMAIN f.doc.v
          /\ f.doc.v.version.t = "num"
    THEN f.doc.v.version.v ELSE -1

\* C16: no step writes a version to the backing file that is lower than the
\* version the file stored before the step
C16_VersionNeverDecreases == [][VersionOf(file') >= VersionOf(file)]_vars

\* C15: in every reachable state, _save followed by _load in a fresh process
\* gives the entries and the settings the state holds
C15_SaveLoadRoundTrip ==
    LET st == InitStore(_save(Store).file)
    IN  st.pairs = pairs /\ st.params = params

----------------------------------------------------------------------------
(* Matching *)

\* the texts a _test_match call returned
Picked == {last.ret[j] : j \in 1..Len(last.ret)}

\* C17: for every input text, the empty one included, the result of
\* _collect_memories_for holds the memory text of every stored entry with
\* always = true
C17_AlwaysCollected ==
    last.op = "test_match"
    => \A i \in 1..Len(pairs) : pairs[i].always => pairs[i].memory \in Picked

\* the entry has keywords, none of them written r/.../
PlainKeywords(p) ==
    \A k \in 1..Len(_split_keywords(p.keywords)) :
        ~IsRegexKw(_split_keywords(p.keywords)[k])

\* C18: for an entry with always = false and plain keywords only, the result of
\* _collect_memories_for holds the entry's memory text exactly when the
\* lower-cased input holds one of its keywords, compared without case
C18_PlainKeywordIff ==
    last.op = "test_match"
    => \A i \in 1..Len(pairs) :
          (~pairs[i].always /\ PlainKeywords(pairs[i]))
          => (pairs[i].memory \in Picked
              <=> \E k \in 1..Len(_split_keywords(pairs[i].keywords)) :
                     Contains(Lower(last.args),
                              Lower(_split_keywords(pairs[i].keywords)[k])))

----------------------------------------------------------------------------
(* The relevance filter *)

\* the filter as the claim words it: false for a trimmed text of fewer than
\* MinRelevantLen characters or with a banned phrase in it (in any case of
\* letters), else true exactly for a sentence end or MinRelevantWords words
Relevant(s0) ==
    LET s == Strip(s0)
    IN  IF CharLen(s) < MinRelevantLen
           \/ \E p \in BanPhrases : Contains(Lower(s), p)
        THEN FALSE
        ELSE s[Len(s)] \in SentenceEnd \/ WordCount(s) >= MinRelevantWords

\* the memory text _append_memory has after normalising its argument
Normalised == NewEntry(last.args[1], last.args[2], last.args[3], now).memory

\* C19 as stated: _is_relevant_memory is the filter described, and
\* _append_memory rejects every text it is called with for which the filter is
\* false
C19_Original ==
    last.op = "append"
    => /\ \A s \in {last.args[1], Normalised} : _is_relevant_memory(s) = Relevant(s)
       /\ ~_is_relevant_memory(last.args[1]) => ~last.ok

\* C19, amended: _is_relevant_memory is the filter described, and
\* _append_memory rejects every text whose normalised form (blanks collapsed,
\* entities and enclosing quotes removed) the filter finds false
C19_Amended ==
    last.op = "append"
    => /\ \A s \in {last.args[1], Normalised} : _is_relevant_memory(s) = Relevant(s)
       /\ ~Relevant(Normalised) => ~last.ok

\* a text of twelve characters or more was filtered
C19_Witness ==
    /\ last.op = "append"
    /\ last.msg = "Filtered (short/irrelevant)."
    /\ CharLen(Strip(last.args[1])) >= MinRelevantLen

----------------------------------------------------------------------------
(* JSON payloads *)

\* the always value the claim gives a JSON object: true for the boolean true
\* and for the five strings, false for a missing field or another string
AlwaysField(obj) ==
    LET av == Get(obj, "always", JBool(FALSE))
    IN  \/ av.t = "bool" /\ av.v
        \/ av.t = "str" /\ av.v \in TruthyStrings

\* C20: for a brace-enclosed payload that is a JSON object, the payload
\* _parse_save_payload returns has always = true exactly for the boolean true
\* and the strings "1", "true", "yes", "y", "on"
C20_JsonAlways ==
    (reply # NoOutput /\ reply.text \in JsonTexts)
    => \A c \in 1..Len(reply.calls) :
          reply.calls[c].payload.always = AlwaysField(JsonObj(reply.text[5]))

----------------------------------------------------------------------------
(* Malformed payloads *)

\* C21: a directive whose brace payload is not valid JSON is discarded: no
\* entry is stored whose text is that payload, while a well-formed directive
\* of the same reply is stored
C21_MalformedDiscarded ==
    /\ \A i \in 1..Len(pairs) :
          pairs[i].memory = <<>> \/ pairs[i].memory[1] # "{"
    /\ (reply # NoOutput /\ reply.text = GoodThenBadJson /\ reply.fresh
            /\ reply.allowed)
       => \E c \in 1..Len(reply.calls) :
             reply.calls[c].payload.memory = NowText /\ reply.calls[c].ok

----------------------------------------------------------------------------
(* Trailing annotations *)

\* C22: an annotation is folded into a payload only when it follows the
\* directive at once and the payload does not set the field itself: the
\* [keywords=kw] behind other text gives the payload no keywords, and the
\* payload that says always=false keeps it before an [always=true]
C22_FoldOnlyAdjacentUnset ==
    reply # NoOutput
    => \A c \in 1..Len(reply.calls) :
          LET p == reply.calls[c].payload
          IN  /\ (reply.text = FlagApart /\ p.memory = TeaText) => p.keywords = <<>>
              /\ (reply.text = ExplicitFalse /\ p.memory = TeaText) => ~p.always

----------------------------------------------------------------------------
(* Normalisation *)

\* C23: _normalize_memory_text is idempotent: applied to a text it returned,
\* it returns that text
C23_NormalizeIdempotent ==
    last.op = "normalize" => _normalize_memory_text(last.ret) = last.ret

\* C24: the block _cap returns for input_modifier and for
\* custom_generate_chat_prompt has at most max_context_chars characters, the
\* truncation marker included, whenever max_context_chars is positive
C24_CapWithinLimit ==
    (last.op \in {"input", "chat"} /\ params.max_context_chars.v > 0)
        => CharLen(last.block) <= params.max_context_chars.v

\* a step of input_modifier or custom_generate_chat_prompt
HookStep == last'.op \in {"input", "chat"}

\* C27: _SESSION["guide_injected"] is never reset to false; a hook called
\* with guide_once enabled and the flag set injects no guide; and a hook that
\* injects the guide with guide_once enabled found the flag unset and sets it,
\* so that with guide_once enabled the guide goes out at most once
C27_GuideAtMostOnce ==
    [][/\ guide_injected => guide_injected'
       /\ (HookStep /\ params.guide_once.v /\ guide_injected) => ~last'.guide
       /\ (HookStep /\ params.guide_once.v /\ last'.guide)
              => (~guide_injected /\ guide_injected')]_vars

\* C27: a hook was called with a trigger word while guide_once was enabled
\* and the guide had gone out before, and it injected nothing
C27_Witness ==
    /\ last.op \in {"input", "chat"}
    /\ guide_injected /\ ~last.guide
    /\ params.guide_once.v /\ params.inject_guide.v /\ params.hint_on_triggers.v
    /\ _has_trigger(last.args, params.guide_triggers.v)
    /\ (last.op = "chat" => ~Contains(last.ret, GuideMarker))

\* two entries with the same (memory, keywords, always)
SameTriple(p, q) ==
    p.memory = q.memory /\ p.keywords = q.keywords /\ p.always = q.always

\* C25: no step changes the created_at of an entry: an edit, an add and a
\* save leave the created_at at every position that was there; a delete leaves
\* only entries that were there, as they were; and after a reload every entry
\* that was in the store before has the created_at it had
C25_CreatedAtKept ==
    [][IF last'.op = "load"
       THEN \A j \in 1..Len(pairs') :
               (\E i \in 1..Len(pairs) : SameTriple(pairs[i], pairs'[j]))
                  => \E i \in 1..Len(pairs) : pairs[i] = pairs'[j]
       ELSE IF Len(pairs') < Len(pairs)
       THEN \A j \in 1..Len(pairs') : \E i \in 1..Len(pairs) : pairs[i] = pairs'[j]
       ELSE \A i \in 1..Len(pairs) : pairs'[i].created_at = pairs[i].created_at]_vars

\* the fingerprint of the payload of the c-th _append_memory call of a reply
CallFp(r, c) == _fingerprint(r.calls[c].payload)

\* C26: _LAST_SAVE_FINGERPRINT never loses an element, and every payload an
\* output_modifier call passes to _append_memory has a fingerprint that was
\* not in the set before the call, is in it afterwards, and differs from the
\* fingerprints of the other payloads of the call: no payload is passed twice
C26_PayloadOnce ==
    [][/\ fingerprints \subseteq fingerprints'
       /\ last'.op = "output" =>
              \A c \in 1..Len(reply'.calls) :
                 /\ CallFp(reply', c) \notin fingerprints
                 /\ CallFp(reply', c) \in fingerprints'
                 /\ \A d \in 1..Len(reply'.calls) :
                        d # c => CallFp(reply', d) # CallFp(reply', c)]_vars

\* C26: the reply held a directive whose payload went out before, no entry
\* of it is in the store, and output_modifier passed nothing on
C26_Witness ==
    /\ last.op = "output" /\ reply.allowed
    /\ reply.text \in {OutEmbedded, OutDupTwice}
    /\ reply.matches # <<>>
    /\ reply.calls = <<>>
    /\ pairs = <<>>

\* the entry at the selection's index carries the selection's label
Selected(sel) ==
    sel.idx < Len(pairs) /\ Label(pairs[sel.idx + 1].memory) = sel.label

\* C28: a click on Apply or Delete with a selected choice changes or removes
\* the entry whose label was selected and no other, or reports an error and
\* leaves the store as it was; it does not raise
C28_ActsOnSelected ==
    [][/\ last'.op = "delete" =>
              \/ Selected(last'.args) /\ pairs' = DelAt(pairs, last'.args.idx)
              \/ pairs' = pairs /\ file' = file /\ last'.msg = "del_invalid_idx"
       /\ last'.op = "edit" =>
              /\ last'.ok
              /\ \/ /\ Selected(last'.args)
                    /\ Len(pairs') = Len(pairs)
                    /\ \A i \in 1..Len(pairs) :
                           i # last'.args.idx + 1 => pairs'[i] = pairs[i]
                 \/ pairs' = pairs /\ file' = file /\ last'.msg # "edit_updated"]_vars

\* C29: concurrent _append_memory calls with the same (memory, keywords,
\* always) add at most one entry: the store never holds two entries with the
\* same three fields
C29_OneEntryPerTriple ==
    \A i, j \in 1..Len(pairs) : i # j => ~SameTriple(pairs[i], pairs[j])

\* C30: a backup file that was written stays as it is: no later step removes
\* it or changes what it holds, so that every delete-all leaves a backup of
\* its own
C30_BackupNeverOverwritten ==
    [][\A t \in DOMAIN backups :
          t \in DOMAIN backups' /\ backups'[t] = backups[t]]_vars

====
